---- MODULE Spec2Model ----
(***************************************************************************)
(* Model of the display part of the TouchDSO oscilloscope                  *)
(* (src/src/TouchDSODisplay.cpp): the raw <-> display value conversion,    *)
(* the bulk renderer drawDataBuffer and the incremental renderer           *)
(* drawRemainingDataBufferValues.                                          *)
(*                                                                         *)
(* Pointers into DataBufferControl.DataBuffer are modelled as indices,     *)
(* pointers into the display buffers as column indices.  C int is 32 bit   *)
(* two's complement (ARM Cortex-M4 build); a signed overflow of the one    *)
(* multiplication of the conversion wraps, which is what the mul           *)
(* instruction of that build produces.                                     *)
(***************************************************************************)
EXTENDS Integers, Sequences, FiniteSets, TLC

(***************************************************************************)
(* Bounds of the model.  The display is scaled down: the real screen is    *)
(* 320 columns wide.                                                       *)
(***************************************************************************)
\* number of display columns (DSO_DISPLAY_WIDTH of TouchDSO.h, scaled down)
DSO_DISPLAY_WIDTH == 3
\* raw input values 0..MaxDenseRaw are all tried by the conversion checks
MaxDenseRaw == 420
\* above MaxDenseRaw every RawStride-th 16 bit value is tried
RawStride == 509
\* the ratios of the X scaling are -MaxXScale .. MaxXScale
MaxXScale == 3

(***************************************************************************)
(* Constants of TouchDSO.h, which is not part of the sources at hand.      *)
(***************************************************************************)
\* row of 0 Volt, the bottom row of the chart
DISPLAY_VALUE_FOR_ZERO == 200
\* value of a display buffer entry that is not drawn
DISPLAYBUFFER_INVISIBLE_VALUE == 255
\* raw value of a data buffer entry that holds no data (0x1000)
DATABUFFER_INVISIBLE_RAW_VALUE == 4096
\* ScaleFactorRawToDisplayShift18: the factors are fixed point numbers << 18
DSO_SCALE_FACTOR_SHIFT == 18
\* width of a C int
INT_BITS == 32

UINT16_MAX == (2 ^ 16) - 1

\* The factor table is filled at run time by
\* initRawToDisplayFactorsAndMaxPeakToPeakValues(); three ranges are modelled:
\* gain 1 (1 << 18), the 136 raw values per 32 pixel of range 3, and gain 1.5
ScaleFactorRawToDisplayShift18 == <<262144, 61681, 393216>>

RangeIndices == 0..(Len(ScaleFactorRawToDisplayShift18) - 1)

VARIABLES
    LOCAL_DISPLAY_EXISTS, \* the build: TRUE when compiled with #define LOCAL_DISPLAY_EXISTS
    MeasurementControl,   \* struct MeasurementControl (the fields the display code reads)
    DisplayControl,       \* struct DisplayControl
    DataBufferControl,    \* struct DataBufferControl, pointers as indices
    DisplayBuffer,        \* uint8_t DisplayBuffer[DSO_DISPLAY_WIDTH]
    DisplayBufferMin,     \* uint8_t DisplayBufferMin[DSO_DISPLAY_WIDTH]
    DisplayBuffer2,       \* uint8_t DisplayBuffer2[DSO_DISPLAY_WIDTH], trigger state line
    DisplayBufferFFT,     \* uint8_t DisplayBufferFFT[FFT_SIZE / 2]
    lastCall,             \* the operation executed last, with its arguments and results
    sink,                 \* the draw calls the last operation issued, in order
    history,              \* what the incremental renderer has done since the sweep began
    signal,               \* the input signal: which of SignalKinds is sampled next
    sLocalButtonIndex,    \* BDButtonHandle_t sLocalButtonIndex
    buttons,              \* the BDButton objects of the application
    BluetoothPaired       \* what USART_isBluetoothPaired() returns

\* the state of the buttons
buttonVars == <<sLocalButtonIndex, buttons, BluetoothPaired>>

vars == <<LOCAL_DISPLAY_EXISTS, MeasurementControl, DisplayControl, DataBufferControl,
          DisplayBuffer, DisplayBufferMin, DisplayBuffer2, DisplayBufferFFT,
          lastCall, sink, history, signal, buttonVars>>

(***************************************************************************)
(* 32 bit arithmetic                                                       *)
(***************************************************************************)
\* C division truncates towards zero; \div is the floor
CDiv(a, b) ==
    IF a >= 0 \/ a % b = 0 THEN a \div b ELSE (a \div b) + 1

\* ((int) (a * f)) >> DSO_SCALE_FACTOR_SHIFT for a >= 0, f > 0, the product
\* wrapped to INT_BITS bits and the shift arithmetic.  The exact quotient
\* floor(a * f / 2^SHIFT) is computed in two halves so that no intermediate
\* value of the evaluation leaves the 32 bit range.
ExactMulShift(a, f) ==
    LET h == 2 ^ (DSO_SCALE_FACTOR_SHIFT \div 2)
        l == 2 ^ (DSO_SCALE_FACTOR_SHIFT - (DSO_SCALE_FACTOR_SHIFT \div 2))
    IN  ((a * (f \div h)) + ((a * (f % h)) \div h)) \div l

WrapHigh(q) ==
    LET m == 2 ^ (INT_BITS - DSO_SCALE_FACTOR_SHIFT)
        qm == q % m
    IN  IF qm >= m \div 2 THEN qm - m ELSE qm

MulShiftInt32(a, f) == WrapHigh(ExactMulShift(a, f))

\* ((int) a) << DSO_SCALE_FACTOR_SHIFT wrapped to INT_BITS bits
ShiftLeftInt32(a) == WrapHigh(a) * (2 ^ DSO_SCALE_FACTOR_SHIFT)

(***************************************************************************)
(* RAW to display value section                                            *)
(***************************************************************************)
\* a factor that is kept from call to call: the factor of range 0 unless
\* the call is the first
ScaleFactorKeptFromFirstCall ==
    IF lastCall.op = "none"
    THEN ScaleFactorRawToDisplayShift18[MeasurementControl.DisplayRangeIndex + 1]
    ELSE ScaleFactorRawToDisplayShift18[1]

ScaleFactor == ScaleFactorRawToDisplayShift18[MeasurementControl.DisplayRangeIndex + 1]

\* a step 1 that is left out for AC ranges too
AdjustedRawNeverSigned(aAdcValue) ==
    aAdcValue - MeasurementControl.RawOffsetValueForDisplayRange

\* the raw value after step 1 and 2: signed for AC ranges, less the range offset
AdjustedRaw(aAdcValue) ==
    (IF MeasurementControl.ChannelIsACMode
        THEN aAdcValue - MeasurementControl.RawDSOReadingACZero
        ELSE aAdcValue) - MeasurementControl.RawOffsetValueForDisplayRange

getDisplayFrowRawInputValue(aAdcValue) ==
    IF aAdcValue = DATABUFFER_INVISIBLE_RAW_VALUE
    THEN DISPLAYBUFFER_INVISIBLE_VALUE
    ELSE LET tOffsetValue == AdjustedRaw(aAdcValue)
         IN  IF tOffsetValue < 0
             THEN DISPLAY_VALUE_FOR_ZERO
             ELSE LET tScaled == MulShiftInt32(tOffsetValue, ScaleFactor)
                  IN  IF tScaled > DISPLAY_VALUE_FOR_ZERO
                      THEN 0
                      ELSE DISPLAY_VALUE_FOR_ZERO - tScaled

\* a conversion that does not add the AC zero reading again
getInputRawFromDisplayValueNoACZero(aValue) ==
    CDiv(ShiftLeftInt32(DISPLAY_VALUE_FOR_ZERO - aValue), ScaleFactor)
    + MeasurementControl.RawOffsetValueForDisplayRange

getInputRawFromDisplayValue(aValue) ==
    LET tInverted == DISPLAY_VALUE_FOR_ZERO - aValue
        tRaw == CDiv(ShiftLeftInt32(tInverted), ScaleFactor)
        tWithOffset == tRaw + MeasurementControl.RawOffsetValueForDisplayRange
    IN  IF MeasurementControl.ChannelIsACMode
        THEN tWithOffset + MeasurementControl.RawDSOReadingACZero
        ELSE tWithOffset

(***************************************************************************)
(* The state the firmware starts with: C globals are zero initialised.     *)
(***************************************************************************)
Columns == 0..(DSO_DISPLAY_WIDTH - 1)

\* capacity of one track of the data buffer (scaled down with the display):
\* room for a full width pass at the strongest compression plus one sample
DATABUFFER_SIZE == ((MaxXScale + 1) * DSO_DISPLAY_WIDTH) + 2
\* the minimum track follows the maximum track in DataBuffer
DATABUFFER_MIN_OFFSET == DATABUFFER_SIZE
\* last sample that is drawn while acquiring
DATABUFFER_DISPLAY_END == DSO_DISPLAY_WIDTH + 1
DATABUFFER_PRE_TRIGGER_SIZE == 1
FFT_SIZE == DSO_DISPLAY_WIDTH + 1

DataIndices == 0..((2 * DATABUFFER_SIZE) - 1)
FFTBars == 0..((FFT_SIZE \div 2) - 1)

ZeroMeasurementControl ==
    [ChannelIsACMode |-> FALSE, RawDSOReadingACZero |-> 0,
     RawOffsetValueForDisplayRange |-> 0, DisplayRangeIndex |-> 0,
     isEffectiveMinMaxMode |-> FALSE, TriggerPhaseJustEnded |-> FALSE,
     RawTriggerLevel |-> 0, MaxFFTValue |-> 0, FrequencyHertzAtMaxFFTBin |-> 0,
     DisplayRangeIndexForPrint |-> 0, OffsetGridCount |-> 0, isRunning |-> FALSE,
     TriggerMode |-> "TRIGGER_MODE_AUTOMATIC"]

ZeroDisplayControl ==
    [XScale |-> 0, showTriggerInfoLine |-> FALSE, drawPixelMode |-> FALSE,
     ShowFFT |-> FALSE, LastDisplayRangeIndex |-> 0, LastOffsetGridCount |-> 0,
     TriggerLevelDisplayValue |-> 0]

ZeroDataBufferControl ==
    [DataBuffer |-> [i \in DataIndices |-> 0],
     DataBufferNextInPointer |-> 0, DataBufferNextDrawPointer |-> 0,
     NextDrawXValue |-> 0, DataBufferPreTriggerAreaWrapAround |-> FALSE]

\* the samples drawing while acquiring may reach
SweepIndices == 0..(DATABUFFER_DISPLAY_END + 1)

ZeroHistory == [lastColumn |-> -1, rendered |-> [i \in SweepIndices |-> 0], passes |-> 0]

ZeroBuffers ==
    /\ DisplayBuffer = [x \in Columns |-> 0]
    /\ DisplayBufferMin = [x \in Columns |-> 0]
    /\ DisplayBuffer2 = [x \in Columns |-> 0]
    /\ DisplayBufferFFT = [b \in FFTBars |-> 0]

\* the BDButton objects of the model
MaxButtonObjects == 2
ButtonObjects == 1..MaxButtonObjects

\* a BDButton after BDButton(void): mButtonHandle holds no handle yet (-1),
\* mLocalButtonPtr points to no TouchButton; initialised records whether
\* init() was called since the last resetAllButtons() with no deinit() since
ZeroButton == [mButtonHandle |-> -1, mLocalButtonPtr |-> "none", initialised |-> FALSE]

\* the state of the buttons at program start
ZeroButtons ==
    /\ sLocalButtonIndex = 0
    /\ buttons = [o \in ButtonObjects |-> ZeroButton]
    /\ BluetoothPaired = FALSE

(***************************************************************************)
(* Conversion routines on their own: every configuration of the channel,   *)
(* every raw value of RawInputs.                                           *)
(***************************************************************************)
\* calibrated zero reading of the AC ranges: about half of the 12 bit ADC range
ACZeroValues == {2000, 2048}
\* raw offsets of the display range (getRawOffsetValueFromGridCount)
RangeOffsets == {-500, 0, 100, 3000}

RawInputs ==
    (0..MaxDenseRaw)
    \cup {DATABUFFER_INVISIBLE_RAW_VALUE - 1, DATABUFFER_INVISIBLE_RAW_VALUE,
          DATABUFFER_INVISIBLE_RAW_VALUE + 1, UINT16_MAX}
    \cup {k * RawStride : k \in 0..(UINT16_MAX \div RawStride)}

InitConversion ==
    /\ ZeroButtons
    /\ LOCAL_DISPLAY_EXISTS = FALSE
    /\ \E ac \in BOOLEAN, z \in ACZeroValues, o \in RangeOffsets, r \in RangeIndices :
           MeasurementControl =
               [ZeroMeasurementControl EXCEPT !.ChannelIsACMode = ac,
                                              !.RawDSOReadingACZero = z,
                                              !.RawOffsetValueForDisplayRange = o,
                                              !.DisplayRangeIndex = r]
    /\ DisplayControl = ZeroDisplayControl
    /\ DataBufferControl = ZeroDataBufferControl
    /\ ZeroBuffers
    /\ lastCall = [op |-> "none"]
    /\ sink = <<>>
    /\ history = ZeroHistory
    /\ signal = 0

\* tValue = getDisplayFrowRawInputValue(v)
ConvertRawToDisplay(v) ==
    /\ lastCall.op = "none"
    /\ lastCall' = [op |-> "getDisplayFrowRawInputValue", aAdcValue |-> v,
                    result |-> getDisplayFrowRawInputValue(v), repeated |-> FALSE]
    /\ UNCHANGED <<buttonVars, LOCAL_DISPLAY_EXISTS, MeasurementControl, DisplayControl,
                   DataBufferControl, DisplayBuffer, DisplayBufferMin, DisplayBuffer2,
                   DisplayBufferFFT, sink, history, signal>>

\* the caller converts the value of the last call once more
ConvertRawToDisplayAgain ==
    /\ lastCall.op = "getDisplayFrowRawInputValue"
    /\ ~lastCall.repeated
    /\ lastCall' = [op |-> "getDisplayFrowRawInputValue", aAdcValue |-> lastCall.aAdcValue,
                    result |-> getDisplayFrowRawInputValue(lastCall.aAdcValue),
                    repeated |-> TRUE]
    /\ UNCHANGED <<buttonVars, LOCAL_DISPLAY_EXISTS, MeasurementControl, DisplayControl,
                   DataBufferControl, DisplayBuffer, DisplayBufferMin, DisplayBuffer2,
                   DisplayBufferFFT, sink, history, signal>>

\* tValue = getDisplayFrowRawInputValue(v); tValue = getInputRawFromDisplayValue(tValue)
ConvertRoundTrip(v) ==
    /\ lastCall.op = "none"
    /\ lastCall' = [op |-> "testDSOConversions", aAdcValue |-> v,
                    result |-> getDisplayFrowRawInputValue(v),
                    raw |-> getInputRawFromDisplayValue(getDisplayFrowRawInputValue(v))]
    /\ UNCHANGED <<buttonVars, LOCAL_DISPLAY_EXISTS, MeasurementControl, DisplayControl,
                   DataBufferControl, DisplayBuffer, DisplayBufferMin, DisplayBuffer2,
                   DisplayBufferFFT, sink, history, signal>>

\* the caller has taken the result: the next conversion may be asked for
ConversionReturns ==
    /\ lastCall.op \in {"getDisplayFrowRawInputValue", "testDSOConversions"}
    /\ lastCall' = [op |-> "none"]
    /\ UNCHANGED <<buttonVars, LOCAL_DISPLAY_EXISTS, MeasurementControl, DisplayControl,
                   DataBufferControl, DisplayBuffer, DisplayBufferMin, DisplayBuffer2,
                   DisplayBufferFFT, sink, history, signal>>

NextConversion ==
    \/ \E v \in RawInputs : ConvertRawToDisplay(v)
    \/ \E v \in RawInputs : ConvertRoundTrip(v)
    \/ ConvertRawToDisplayAgain
    \/ ConversionReturns

SpecConversion == InitConversion /\ [][NextConversion]_vars

(***************************************************************************)
(* Render sink: the calls to BlueDisplay1, in the order they are issued.   *)
(***************************************************************************)
SinkDrawPixel(x, y, color) ==
    [fn |-> "drawPixel", x |-> x, y |-> y, color |-> color]

SinkDrawLineFastOneX(x, yStart, yEnd, color) ==
    [fn |-> "drawLineFastOneX", x |-> x, yStart |-> yStart, yEnd |-> yEnd, color |-> color]

SinkFillRect(xStart, yStart, xEnd, yEnd, color) ==
    [fn |-> "fillRect", xStart |-> xStart, yStart |-> yStart, xEnd |-> xEnd, yEnd |-> yEnd,
     color |-> color]

\* what is stored in a uint8_t / kept in a uint16_t
ToUint8(v) == v % (2 ^ 8)
ToUint16(v) == v % (2 ^ 16)

\* *p for a uint16_t pointer into DataBuffer
RawAt(i) == DataBufferControl.DataBuffer[i]

(***************************************************************************)
(* draw128FFTValuesFast.  computeFFT() is not part of the sources at hand: *)
(* its result is an input, the bins of one spectrum and FFTInfo.           *)
(***************************************************************************)
\* height of the chart area and of one grid row, in pixel
DSO_DISPLAY_HEIGHT == 240
HORIZONTAL_GRID_HEIGHT == 32
\* largest bin value of the modelled spectra
MaxBinValue == 1

MaxOfBins(bins) == CHOOSE m \in {bins[b] : b \in DOMAIN bins} :
                       \A b \in DOMAIN bins : bins[b] <= m

Spectra == {f \in [FFTBars -> 0..MaxBinValue] : \E b \in FFTBars : f[b] > 0}

\* tDisplayY of one bar: the bin scaled to 0 .. HORIZONTAL_GRID_HEIGHT,
\* measured from the bottom of the display, kept in a uint16_t
FFTBarDisplayY(tInputValue, tMaxValue) ==
    ToUint16(DSO_DISPLAY_HEIGHT - ((HORIZONTAL_GRID_HEIGHT * tInputValue) \div tMaxValue))

\* a bar that is filled with every call, changed or not
FFTBarCallsAlwaysFills(tDisplayX, tDisplayY, DisplayYOld, aColor) ==
    IF tDisplayY <= DisplayYOld
    THEN <<SinkFillRect(tDisplayX, tDisplayY, tDisplayX + 2, DisplayYOld, aColor)>>
    ELSE <<SinkFillRect(tDisplayX, DisplayYOld, tDisplayX + 2, tDisplayY,
                        "COLOR_BACKGROUND_DSO")>>

\* the fillRect of one bar, if any
FFTBarCalls(tDisplayX, tDisplayY, DisplayYOld, aColor) ==
    IF tDisplayY < DisplayYOld
    THEN <<SinkFillRect(tDisplayX, tDisplayY, tDisplayX + 2, DisplayYOld, aColor)>>
    ELSE IF tDisplayY > DisplayYOld
         THEN <<SinkFillRect(tDisplayX, DisplayYOld, tDisplayX + 2, tDisplayY,
                             "COLOR_BACKGROUND_DSO")>>
         ELSE <<>>

\* a loop that stores the row of a bar only if the bar has grown
RECURSIVE FFTBarLoopStoresGrownBarsOnly(_, _, _, _, _)
FFTBarLoopStoresGrownBarsOnly(tDisplayX, bins, aColor, buffer, calls) ==
    IF tDisplayX >= DSO_DISPLAY_WIDTH
    THEN [buffer |-> buffer, calls |-> calls]
    ELSE LET b == tDisplayX \div 3
             tDisplayY == FFTBarDisplayY(bins[b], MaxOfBins(bins))
         IN  FFTBarLoopStoresGrownBarsOnly(tDisplayX + 3, bins, aColor,
                 IF tDisplayY < buffer[b] THEN [buffer EXCEPT ![b] = ToUint8(tDisplayY)]
                 ELSE buffer,
                 calls \o FFTBarCalls(tDisplayX, tDisplayY, buffer[b], aColor))

\* the loop over the bars, from column tDisplayX on: the buffer and the calls
RECURSIVE FFTBarLoop(_, _, _, _, _)
FFTBarLoop(tDisplayX, bins, aColor, buffer, calls) ==
    IF tDisplayX >= DSO_DISPLAY_WIDTH
    THEN [buffer |-> buffer, calls |-> calls]
    ELSE LET b == tDisplayX \div 3
             tDisplayY == FFTBarDisplayY(bins[b], MaxOfBins(bins))
         IN  FFTBarLoop(tDisplayX + 3, bins, aColor,
                        [buffer EXCEPT ![b] = ToUint8(tDisplayY)],
                        calls \o FFTBarCalls(tDisplayX, tDisplayY, buffer[b], aColor))

\* FFTInfo.MaxIndex: the first bin that holds the maximum
MaxIndexOfBins(bins) == CHOOSE b \in DOMAIN bins :
                            /\ bins[b] = MaxOfBins(bins)
                            /\ \A c \in DOMAIN bins : bins[c] = MaxOfBins(bins) => b <= c

\* getDataBufferTimebaseExactValueMicros(TimebaseEffectiveIndex), one timebase
TimebaseExactValueMicros == 1000

\* the effect of draw128FFTValuesFast on DisplayBufferFFT, MeasurementControl
\* and the sink
draw128FFTValuesFast(aColor, bins, buffer, control) ==
    IF DisplayControl.ShowFFT
    THEN LET loop == FFTBarLoop(0, bins, aColor, buffer, <<>>)
         IN  [buffer |-> loop.buffer, calls |-> loop.calls,
              control |-> [control EXCEPT
                  !.MaxFFTValue = MaxOfBins(bins),
                  !.FrequencyHertzAtMaxFFTBin =
                      (MaxIndexOfBins(bins) * 125000) \div TimebaseExactValueMicros]]
    ELSE [buffer |-> buffer, calls |-> <<>>, control |-> control]

(***************************************************************************)
(* drawRemainingDataBufferValues: one iteration of its loop is             *)
(* RemainingStep, the whole call is RemainingLoop.                         *)
(***************************************************************************)
\* pitch of the vertical grid lines, in pixel (scaled down with the display)
TIMING_GRID_WIDTH == 2

\* a loop condition that lets the sample at the next-in pointer through
RemainingGuardReadsNextIn(tDrawPointer) ==
    /\ tDrawPointer <= DataBufferControl.DataBufferNextInPointer
    /\ tDrawPointer <= DATABUFFER_DISPLAY_END
    /\ ~MeasurementControl.TriggerPhaseJustEnded
    /\ ~DataBufferControl.DataBufferPreTriggerAreaWrapAround

\* a loop condition that does not look at the wrap around signal
RemainingGuardIgnoresWrapAround(tDrawPointer) ==
    /\ tDrawPointer < DataBufferControl.DataBufferNextInPointer
    /\ tDrawPointer <= DATABUFFER_DISPLAY_END
    /\ ~MeasurementControl.TriggerPhaseJustEnded

\* the loop condition
RemainingGuard(tDrawPointer) ==
    /\ tDrawPointer < DataBufferControl.DataBufferNextInPointer
    /\ tDrawPointer <= DATABUFFER_DISPLAY_END
    /\ ~MeasurementControl.TriggerPhaseJustEnded
    /\ ~DataBufferControl.DataBufferPreTriggerAreaWrapAround

\* a wrap around one column early
WrapDisplayXEarly(tNextDrawXValue) ==
    IF tNextDrawXValue >= DSO_DISPLAY_WIDTH - 1 THEN 0 ELSE tNextDrawXValue

\* a wrap around to the second column
WrapDisplayXToOne(tNextDrawXValue) ==
    IF tNextDrawXValue >= DSO_DISPLAY_WIDTH THEN 1 ELSE tNextDrawXValue

\* wrap around in display buffer
WrapDisplayX(tNextDrawXValue) ==
    IF tNextDrawXValue >= DSO_DISPLAY_WIDTH THEN 0 ELSE tNextDrawXValue

\* a spectrum that is drawn for the sample before the boundary as well
IsFFTSampleAlsoBefore(tDrawPointer) ==
    \/ tDrawPointer = DATABUFFER_PRE_TRIGGER_SIZE + FFT_SIZE - 1
    \/ tDrawPointer = DATABUFFER_PRE_TRIGGER_SIZE + FFT_SIZE - 2

\* the sample index at which the fast FFT is shown
IsFFTSample(tDrawPointer) ==
    tDrawPointer = DATABUFFER_PRE_TRIGGER_SIZE + FFT_SIZE - 1

IsPixelMode == LOCAL_DISPLAY_EXISTS /\ DisplayControl.drawPixelMode

\* the call for the minimum track that follows a call for the maximum track
IfMinMax(call) ==
    IF MeasurementControl.isEffectiveMinMaxMode THEN <<call>> ELSE <<>>

\* an erase step that leaves the start pixel of a trace in place
RemainingEraseCallsLinesOnly(tDisplayX, buffer, bufferMin) ==
    LET tValue == buffer[tDisplayX]
        tValueMin == bufferMin[tDisplayX]
    IN  IF IsPixelMode
        THEN LET tColor == IF tDisplayX % TIMING_GRID_WIDTH = TIMING_GRID_WIDTH - 1
                           THEN "COLOR_GRID_LINES" ELSE "EraseColor"
             IN  IF tValue # DISPLAYBUFFER_INVISIBLE_VALUE
                 THEN <<SinkDrawPixel(tDisplayX, tValue, tColor)>>
                      \o IfMinMax(SinkDrawPixel(tDisplayX, tValueMin, tColor))
                 ELSE <<>>
        ELSE IF /\ tDisplayX < DSO_DISPLAY_WIDTH - 1
                /\ buffer[tDisplayX + 1] # DISPLAYBUFFER_INVISIBLE_VALUE
                /\ tValue # DISPLAYBUFFER_INVISIBLE_VALUE
             THEN <<SinkDrawLineFastOneX(tDisplayX, tValue, buffer[tDisplayX + 1],
                                         "EraseColor")>>
                  \o IfMinMax(SinkDrawLineFastOneX(tDisplayX, tValueMin,
                         bufferMin[tDisplayX + 1], "EraseColor"))
             ELSE <<>>

\* clear old pixel / line at column tDisplayX, from the stored values
RemainingEraseCalls(tDisplayX, buffer, bufferMin) ==
    LET tValue == buffer[tDisplayX]
        tValueMin == bufferMin[tDisplayX]
    IN  IF IsPixelMode
        THEN LET tColor == IF tDisplayX % TIMING_GRID_WIDTH = TIMING_GRID_WIDTH - 1
                           THEN "COLOR_GRID_LINES" ELSE "EraseColor"
             IN  IF tValue # DISPLAYBUFFER_INVISIBLE_VALUE
                 THEN <<SinkDrawPixel(tDisplayX, tValue, tColor)>>
                      \o IfMinMax(SinkDrawPixel(tDisplayX, tValueMin, tColor))
                 ELSE <<>>
        ELSE IF tDisplayX < DSO_DISPLAY_WIDTH - 1
             THEN LET tNextValue == buffer[tDisplayX + 1]
                  IN  IF tNextValue # DISPLAYBUFFER_INVISIBLE_VALUE
                      THEN IF tValue # DISPLAYBUFFER_INVISIBLE_VALUE
                           THEN <<SinkDrawLineFastOneX(tDisplayX, tValue, tNextValue,
                                                       "EraseColor")>>
                                \o IfMinMax(SinkDrawLineFastOneX(tDisplayX, tValueMin,
                                       bufferMin[tDisplayX + 1], "EraseColor"))
                           ELSE <<SinkDrawPixel(tDisplayX + 1, tNextValue, "EraseColor")>>
                                \o IfMinMax(SinkDrawPixel(tDisplayX + 1,
                                       bufferMin[tDisplayX + 1], "EraseColor"))
                      ELSE <<>>
             ELSE <<>>

\* draw the new pixel / line at column tDisplayX; buffer and bufferMin are
\* the display buffers after the new values were stored
RemainingDrawCalls(tDisplayX, tValue, tValueMin, buffer, bufferMin, aDrawColor) ==
    IF IsPixelMode
    THEN IF tValue # DISPLAYBUFFER_INVISIBLE_VALUE
         THEN <<SinkDrawPixel(tDisplayX, tValue, aDrawColor)>>
              \o IfMinMax(SinkDrawPixel(tDisplayX, tValueMin, aDrawColor))
         ELSE <<>>
    ELSE IF tDisplayX # 0 /\ tDisplayX <= DSO_DISPLAY_WIDTH - 1
         THEN IF tValue # DISPLAYBUFFER_INVISIBLE_VALUE
              THEN LET tLastValue == buffer[tDisplayX - 1]
                   IN  IF tLastValue # DISPLAYBUFFER_INVISIBLE_VALUE
                       THEN <<SinkDrawLineFastOneX(tDisplayX - 1, tLastValue, tValue,
                                                   aDrawColor)>>
                            \o IfMinMax(SinkDrawLineFastOneX(tDisplayX - 1,
                                   bufferMin[tDisplayX - 1], tValueMin, aDrawColor))
                       ELSE <<SinkDrawPixel(tDisplayX, tValue, aDrawColor)>>
                            \o IfMinMax(SinkDrawPixel(tDisplayX, tValueMin, aDrawColor))
              ELSE <<>>
         ELSE <<>>

\* One iteration.  st holds what the loop changes: the display buffers, the
\* FFT buffer, MeasurementControl, NextDrawXValue, DataBufferNextDrawPointer,
\* the sink calls, and one record for each iteration done.
RemainingStep(st, aDrawColor, bins) ==
    LET tDrawPointer == st.DataBufferNextDrawPointer
        fft == IF IsFFTSample(tDrawPointer)
               THEN draw128FFTValuesFast("COLOR_FFT_DATA", bins, st.DisplayBufferFFT,
                                         st.MeasurementControl)
               ELSE [buffer |-> st.DisplayBufferFFT, calls |-> <<>>,
                     control |-> st.MeasurementControl]
        tDisplayX == WrapDisplayX(st.NextDrawXValue)
        erase == RemainingEraseCalls(tDisplayX, st.DisplayBuffer, st.DisplayBufferMin)
        tValue == getDisplayFrowRawInputValue(RawAt(tDrawPointer))
        tValueMin == IF MeasurementControl.isEffectiveMinMaxMode
                     THEN getDisplayFrowRawInputValue(
                              RawAt(tDrawPointer + DATABUFFER_MIN_OFFSET))
                     ELSE st.DisplayBufferMin[tDisplayX]
        buffer == [st.DisplayBuffer EXCEPT ![tDisplayX] = ToUint8(tValue)]
        bufferMin == IF MeasurementControl.isEffectiveMinMaxMode
                     THEN [st.DisplayBufferMin EXCEPT ![tDisplayX] = ToUint8(tValueMin)]
                     ELSE st.DisplayBufferMin
        draw == RemainingDrawCalls(tDisplayX, tValue, tValueMin, buffer, bufferMin,
                                   aDrawColor)
    IN  [DisplayBuffer |-> buffer,
         DisplayBufferMin |-> bufferMin,
         DisplayBufferFFT |-> fft.buffer,
         MeasurementControl |-> fft.control,
         NextDrawXValue |-> tDisplayX + 1,
         DataBufferNextDrawPointer |-> tDrawPointer + 1,
         calls |-> st.calls \o fft.calls \o erase \o draw,
         iterations |-> Append(st.iterations,
             [column |-> tDisplayX, sample |-> tDrawPointer,
              fft |-> IsFFTSample(tDrawPointer),
              calls |-> erase \o draw])]

RECURSIVE RemainingLoop(_, _, _)
RemainingLoop(st, aDrawColor, bins) ==
    IF RemainingGuard(st.DataBufferNextDrawPointer)
    THEN RemainingLoop(RemainingStep(st, aDrawColor, bins), aDrawColor, bins)
    ELSE st

\* drawRemainingDataBufferValues(aDrawColor); bins is what computeFFT() yields
\* if the loop asks for it
drawRemainingDataBufferValues(aDrawColor, bins) ==
    LET entry == [DisplayBuffer |-> DisplayBuffer,
                  DisplayBufferMin |-> DisplayBufferMin,
                  DisplayBufferFFT |-> DisplayBufferFFT,
                  MeasurementControl |-> MeasurementControl,
                  NextDrawXValue |-> DataBufferControl.NextDrawXValue,
                  DataBufferNextDrawPointer |-> DataBufferControl.DataBufferNextDrawPointer,
                  calls |-> <<>>,
                  iterations |-> <<>>]
        exit == RemainingLoop(entry, aDrawColor, bins)
    IN  /\ DisplayBuffer' = exit.DisplayBuffer
        /\ DisplayBufferMin' = exit.DisplayBufferMin
        /\ DisplayBufferFFT' = exit.DisplayBufferFFT
        /\ MeasurementControl' = exit.MeasurementControl
        /\ DataBufferControl' =
               [DataBufferControl EXCEPT
                   !.NextDrawXValue = exit.NextDrawXValue,
                   !.DataBufferNextDrawPointer = exit.DataBufferNextDrawPointer]
        /\ sink' = exit.calls
        /\ lastCall' = [op |-> "drawRemainingDataBufferValues",
                        entryDrawPointer |-> entry.DataBufferNextDrawPointer,
                        entryNextDrawXValue |-> entry.NextDrawXValue,
                        entryLastColumn |-> history.lastColumn,
                        iterations |-> exit.iterations]
        /\ history' =
               [lastColumn |-> IF exit.iterations = <<>> THEN history.lastColumn
                               ELSE exit.iterations[Len(exit.iterations)].column,
                rendered |-> [i \in SweepIndices |->
                    history.rendered[i]
                    + Cardinality({k \in 1..Len(exit.iterations) :
                                       exit.iterations[k].sample = i})],
                passes |-> history.passes]
        /\ UNCHANGED <<buttonVars, LOCAL_DISPLAY_EXISTS, DisplayControl, DisplayBuffer2, signal>>

(***************************************************************************)
(* Drawing while acquiring: the acquisition stores samples and sets its    *)
(* two signals, the main loop calls drawRemainingDataBufferValues.         *)
(***************************************************************************)
\* raw values the acquisition stores: two visible ones and the marker
RawHigh == 150
RawLow == 120

\* (maximum, minimum) of the three kinds of sample of the model
SampleOfKind(kind) ==
    IF MeasurementControl.isEffectiveMinMaxMode
    THEN CASE kind = 0 -> <<RawHigh, RawLow>>
           [] kind = 1 -> <<DATABUFFER_INVISIBLE_RAW_VALUE, DATABUFFER_INVISIBLE_RAW_VALUE>>
           [] OTHER -> <<RawHigh, DATABUFFER_INVISIBLE_RAW_VALUE>>
    ELSE CASE kind = 0 -> <<RawHigh, 0>>
           [] kind = 1 -> <<DATABUFFER_INVISIBLE_RAW_VALUE, 0>>
           [] OTHER -> <<RawLow, 0>>

\* The input signals: a cyclic sequence of kinds in which every triple of
\* kinds occurs, entered at any position.
SignalKinds == <<0, 0, 0, 1, 0, 0, 2, 0, 1, 1, 0, 1, 2, 0, 2, 1, 0, 2, 2, 1, 1, 1, 2, 1, 2,
                 2, 2>>

InitIncremental ==
    /\ ZeroButtons
    /\ LOCAL_DISPLAY_EXISTS \in BOOLEAN
    /\ \E minMax \in BOOLEAN :
           MeasurementControl =
               [ZeroMeasurementControl EXCEPT !.RawOffsetValueForDisplayRange = 100,
                                              !.isEffectiveMinMaxMode = minMax]
    /\ \E pixelMode \in (IF LOCAL_DISPLAY_EXISTS THEN BOOLEAN ELSE {FALSE}) :
           DisplayControl = [ZeroDisplayControl EXCEPT !.drawPixelMode = pixelMode,
                                                       !.ShowFFT = TRUE]
    /\ DataBufferControl = ZeroDataBufferControl
    /\ ZeroBuffers
    /\ lastCall = [op |-> "none"]
    /\ sink = <<>>
    /\ history = ZeroHistory
    /\ signal \in 0..(Len(SignalKinds) - 1)

\* the acquisition stores the next sample (the last acquisition fills the
\* data buffer beyond DATABUFFER_DISPLAY_END)
AcquireSample ==
    LET tIn == DataBufferControl.DataBufferNextInPointer
        sample == SampleOfKind(SignalKinds[signal + 1])
    IN  /\ tIn <= DATABUFFER_DISPLAY_END + 1
        /\ DataBufferControl' =
               [DataBufferControl EXCEPT
                   !.DataBuffer =
                       IF MeasurementControl.isEffectiveMinMaxMode
                       THEN [@ EXCEPT ![tIn] = sample[1],
                                      ![tIn + DATABUFFER_MIN_OFFSET] = sample[2]]
                       ELSE [@ EXCEPT ![tIn] = sample[1]],
                   !.DataBufferNextInPointer = tIn + 1]
        /\ signal' = (signal + 1) % Len(SignalKinds)
        /\ lastCall' = [op |-> "acquire"]
        /\ sink' = <<>>
        /\ UNCHANGED <<buttonVars, LOCAL_DISPLAY_EXISTS, MeasurementControl, DisplayControl,
                       DisplayBuffer, DisplayBufferMin, DisplayBuffer2, DisplayBufferFFT,
                       history>>

\* the acquisition sets / the main loop clears TriggerPhaseJustEnded
SetTriggerPhaseJustEnded(b) ==
    /\ MeasurementControl.TriggerPhaseJustEnded # b
    /\ MeasurementControl' = [MeasurementControl EXCEPT !.TriggerPhaseJustEnded = b]
    /\ lastCall' = [op |-> "signal"]
    /\ sink' = <<>>
    /\ UNCHANGED <<buttonVars, LOCAL_DISPLAY_EXISTS, DisplayControl, DataBufferControl,
                   DisplayBuffer, DisplayBufferMin, DisplayBuffer2, DisplayBufferFFT,
                   history, signal>>

\* the acquisition sets / the main loop clears DataBufferPreTriggerAreaWrapAround
SetPreTriggerAreaWrapAround(b) ==
    /\ DataBufferControl.DataBufferPreTriggerAreaWrapAround # b
    /\ DataBufferControl' =
           [DataBufferControl EXCEPT !.DataBufferPreTriggerAreaWrapAround = b]
    /\ lastCall' = [op |-> "signal"]
    /\ sink' = <<>>
    /\ UNCHANGED <<buttonVars, LOCAL_DISPLAY_EXISTS, MeasurementControl, DisplayControl,
                   DisplayBuffer, DisplayBufferMin, DisplayBuffer2, DisplayBufferFFT,
                   history, signal>>

DrawRemaining == \E bins \in Spectra : drawRemainingDataBufferValues("COLOR_DATA_RUN", bins)

NextIncremental ==
    \/ AcquireSample
    \/ \E b \in BOOLEAN : SetTriggerPhaseJustEnded(b)
    \/ \E b \in BOOLEAN : SetPreTriggerAreaWrapAround(b)
    \/ DrawRemaining

SpecIncremental == InitIncremental /\ [][NextIncremental]_vars

(***************************************************************************)
(* drawDataBuffer: draws a whole window of the data buffer.  Pointers are  *)
(* indices; a color is a string, NO_COLOR is the color value 0.            *)
(***************************************************************************)
TRIGGER_HIGH_DISPLAY_OFFSET == 7
NO_COLOR == "0"
DrawModes == {"DRAW_MODE_REGULAR", "DRAW_MODE_CLEAR_OLD", "DRAW_MODE_CLEAR_OLD_MIN"}

SinkLocalDrawPixel(x, y, color) ==
    [fn |-> "LocalDisplay.drawPixel", x |-> x, y |-> y, color |-> color]

SinkLocalDrawLineFastOneX(x, yStart, yEnd, color) ==
    [fn |-> "LocalDisplay.drawLineFastOneX", x |-> x, yStart |-> yStart, yEnd |-> yEnd,
     color |-> color]

\* a chart call that names chart 0 for either track
SinkDrawChartByteBufferChartZero(aColor, aClearBeforeColor, aChartIndex, aDoDrawDirect, buffer, aLength) ==
    [fn |-> "drawChartByteBuffer", x |-> 0, y |-> 0, color |-> aColor,
     clearBeforeColor |-> aClearBeforeColor, chartIndex |-> 0,
     doDrawDirect |-> aDoDrawDirect, buffer |-> buffer, length |-> aLength]

SinkDrawChartByteBuffer(aColor, aClearBeforeColor, aChartIndex, aDoDrawDirect, buffer, aLength) ==
    [fn |-> "drawChartByteBuffer", x |-> 0, y |-> 0, color |-> aColor,
     clearBeforeColor |-> aClearBeforeColor, chartIndex |-> aChartIndex,
     doDrawDirect |-> aDoDrawDirect, buffer |-> buffer, length |-> aLength]

RECURSIVE SumOfRawValues(_, _)
\* the sum of aCount samples from aAdcValuePtr on
SumOfRawValues(aAdcValuePtr, aCount) ==
    IF aCount <= 0 THEN 0
    ELSE RawAt(aAdcValuePtr) + SumOfRawValues(aAdcValuePtr + 1, aCount - 1)

RECURSIVE SumOfRows(_, _)
\* the sum of the rows of aCount samples from aAdcValuePtr on
SumOfRows(aAdcValuePtr, aCount) ==
    IF aCount <= 0 THEN 0
    ELSE getDisplayFrowRawInputValue(RawAt(aAdcValuePtr))
         + SumOfRows(aAdcValuePtr + 1, aCount - 1)

\* an average of rows in place of the row of the average
getDisplayFrowMultipleRawValuesAveragesRows(aAdcValuePtr, aCount) ==
    SumOfRows(aAdcValuePtr, aCount) \div aCount

\* the row of the average of aCount samples
getDisplayFrowMultipleRawValues(aAdcValuePtr, aCount) ==
    getDisplayFrowRawInputValue(SumOfRawValues(aAdcValuePtr, aCount) \div aCount)

\* no X scaling: every column is the next sample
XScaleStepNoScaling(tXScale, tDataBufferPointer, tXScaleCounter) ==
    [tValue |-> getDisplayFrowRawInputValue(RawAt(tDataBufferPointer)),
     tDataBufferPointer |-> tDataBufferPointer + 1,
     tXScaleCounter |-> tXScaleCounter,
     reads |-> <<tDataBufferPointer>>]

\* X scaling of one column: the value of the column, the data pointer and
\* the counter after it, and the samples the value is made of
XScaleStep(tXScale, tDataBufferPointer, tXScaleCounter) ==
    LET tValue == getDisplayFrowRawInputValue(RawAt(tDataBufferPointer))
        one(p, c) == [tValue |-> tValue, tDataBufferPointer |-> p, tXScaleCounter |-> c,
                      reads |-> <<tDataBufferPointer>>]
    IN  CASE tXScale = 0 ->
                 one(tDataBufferPointer + 1, tXScaleCounter)
          [] tXScale < -1 ->
                 \* compress - get average of multiple values
                 [tValue |-> getDisplayFrowMultipleRawValues(tDataBufferPointer, tXScaleCounter),
                  tDataBufferPointer |-> tDataBufferPointer + tXScaleCounter,
                  tXScaleCounter |-> tXScaleCounter,
                  reads |-> [k \in 1..tXScaleCounter |-> tDataBufferPointer + k - 1]]
          [] tXScale = -1 ->
                 \* compress by factor 1.5
                 IF tXScaleCounter - 1 < 0
                 THEN IF tValue # DISPLAYBUFFER_INVISIBLE_VALUE
                      THEN [tValue |-> (tValue + getDisplayFrowRawInputValue(
                                                     RawAt(tDataBufferPointer + 1))) \div 2,
                            tDataBufferPointer |-> tDataBufferPointer + 2,
                            tXScaleCounter |-> 1,
                            reads |-> <<tDataBufferPointer, tDataBufferPointer + 1>>]
                      ELSE one(tDataBufferPointer + 1, 1)
                 ELSE one(tDataBufferPointer + 1, tXScaleCounter - 1)
          [] tXScale = 1 ->
                 \* expand by factor 1.5
                 IF tXScaleCounter - 1 < 0
                 THEN one(tDataBufferPointer, 2)
                 ELSE one(tDataBufferPointer + 1, tXScaleCounter - 1)
          [] OTHER ->
                 \* expand - show value several times
                 IF tXScaleCounter = 0
                 THEN one(tDataBufferPointer + 1, tXScale - 1)
                 ELSE one(tDataBufferPointer, tXScaleCounter - 1)

\* *p for a uint8_t pointer that started at the first element of a display
\* buffer; behind the last element the value read is not determined
ScreenAt(buffer, p, tBeyond) == IF p \in DOMAIN buffer THEN buffer[p] ELSE tBeyond

\* the trigger state line of column i
TriggerInfoStep(st, i, tValue, a) ==
    LET tTriggerValue == getDisplayFrowRawInputValue(MeasurementControl.RawTriggerLevel)
        tMarkRow == tTriggerValue - TRIGGER_HIGH_DISPLAY_OFFSET
        p == st.ScreenBufferWritePointer2
        tClear == IF LOCAL_DISPLAY_EXISTS /\ a.aClearBeforeColor # NO_COLOR
                  THEN <<SinkLocalDrawPixel(i, ScreenAt(st.DisplayBuffer2, p, a.tBeyond),
                                            a.aClearBeforeColor)>>
                  ELSE <<>>
    IN  IF ~DisplayControl.showTriggerInfoLine THEN st
        ELSE IF tValue > tTriggerValue
        THEN [st EXCEPT
                 !.calls = @ \o tClear \o
                     (IF LOCAL_DISPLAY_EXISTS
                      THEN <<SinkLocalDrawPixel(i, tMarkRow, "COLOR_DATA_TRIGGER")>>
                      ELSE <<>>),
                 !.DisplayBuffer2 = IF p \in Columns
                                    THEN [@ EXCEPT ![p] = ToUint8(tMarkRow)] ELSE @,
                 !.overlay = Append(@, [track |-> st.track, column |-> i, index |-> p]),
                 !.ScreenBufferWritePointer2 = p + 1]
        ELSE [st EXCEPT !.calls = @ \o tClear]

\* the draw calls to the local display for column i
LocalDrawStep(st, i, tValue, a) ==
    LET tRead(p) == ScreenAt(st.buffer, p, a.tBeyond)
        tIfVisible(v, call) == IF v # DISPLAYBUFFER_INVISIBLE_VALUE THEN <<call>> ELSE <<>>
        tClearing == a.aClearBeforeColor # NO_COLOR
        p == st.ScreenBufferReadPointer
    IN  IF DisplayControl.drawPixelMode \/ i = 0
        THEN \* Pixel Mode or first value of chart
             IF a.aDrawMode # "DRAW_MODE_REGULAR"
                /\ st.tCounterForTimingGridRestore = TIMING_GRID_WIDTH
             THEN [st EXCEPT !.tCounterForTimingGridRestore = 0,
                             !.calls = Append(@, SinkLocalDrawPixel(i, tValue, "COLOR_GRID_LINES")),
                             !.tLastValue = tValue]
             ELSE LET tLineMode == tClearing /\ ~DisplayControl.drawPixelMode
                      tErase == IF ~tClearing THEN <<>>
                                ELSE tIfVisible(tRead(p),
                                         SinkLocalDrawPixel(i, tRead(p), a.aClearBeforeColor))
                                     \o (IF tLineMode
                                         THEN tIfVisible(tRead(p + 1),
                                                  SinkLocalDrawLineFastOneX(0, tRead(p),
                                                      tRead(p + 1), a.aClearBeforeColor))
                                         ELSE <<>>)
                  IN  [st EXCEPT
                          !.tCounterForTimingGridRestore = @ + 1,
                          !.ScreenBufferReadPointer = IF tLineMode THEN p + 1 ELSE p,
                          !.tLastValueClear = IF tLineMode THEN tRead(p + 1) ELSE @,
                          !.calls = @ \o tErase
                                      \o tIfVisible(tValue, SinkLocalDrawPixel(i, tValue, a.aColor)),
                          !.tLastValue = tValue]
        ELSE \* Line mode here
             LET tAdvance == tClearing /\ i # DSO_DISPLAY_WIDTH - 1
                 tErase == IF tAdvance /\ st.tLastValueClear # DISPLAYBUFFER_INVISIBLE_VALUE
                           THEN tIfVisible(tRead(p),
                                    SinkLocalDrawLineFastOneX(i, st.tLastValueClear, tRead(p),
                                                              a.aClearBeforeColor))
                           ELSE <<>>
                 tClipping == st.tLastValue = tValue
                              /\ (tValue = DISPLAY_VALUE_FOR_ZERO \/ tValue = 0)
                 tDraw == IF tValue = DISPLAYBUFFER_INVISIBLE_VALUE THEN <<>>
                          ELSE IF st.tLastValue # DISPLAYBUFFER_INVISIBLE_VALUE
                          THEN <<SinkLocalDrawLineFastOneX(i - 1, st.tLastValue, tValue,
                                     IF tClipping THEN "COLOR_DATA_RUN_CLIPPING" ELSE a.aColor)>>
                          ELSE <<SinkLocalDrawPixel(i, tValue, a.aColor)>>
             IN  [st EXCEPT !.tLastValueClear = IF tAdvance THEN tRead(p) ELSE @,
                            !.calls = @ \o tErase \o tDraw,
                            !.tLastValue = tValue]

\* the one element of a set of one element
Only(S) == CHOOSE x \in S : TRUE

\* a data pointer that is advanced with every column, the held ones too
ColumnValueAlwaysAdvances(st, a) ==
    [XScaleStep(DisplayControl.XScale, st.tDataBufferPointer, st.tXScaleCounter)
         EXCEPT !.tDataBufferPointer = st.tDataBufferPointer + 1]

\* the value of the column and the data pointer and counter after it
ColumnValue(st, a) ==
    IF a.aDrawMode # "DRAW_MODE_REGULAR"
    THEN \* get data from screen buffer in order to erase it
         [tValue |-> ScreenAt(st.buffer, st.ScreenBufferReadPointer, a.tBeyond),
          tDataBufferPointer |-> st.tDataBufferPointer,
          tXScaleCounter |-> st.tXScaleCounter,
          reads |-> <<>>]
    ELSE XScaleStep(DisplayControl.XScale, st.tDataBufferPointer, st.tXScaleCounter)

\* store data in screen buffer
ColumnStore(st, i, tScaled) ==
    [st EXCEPT !.buffer = [@ EXCEPT ![i] = ToUint8(tScaled.tValue)],
               !.ScreenBufferReadPointer = @ + 1,
               !.columns = Append(@, [column |-> i, reads |-> tScaled.reads,
                                      tValue |-> tScaled.tValue])]

\* one pass of the loop over the columns; st, tScaled, st2 and st3 are the
\* state at entry, the value of the column, the state after the trigger state
\* line and the state after the draw calls to the local display
ColumnStep(stEntry, i, a) ==
    Only({Only({Only({Only({ColumnStore(st3, i, tScaled) :
        st3 \in {IF LOCAL_DISPLAY_EXISTS
                 THEN LocalDrawStep(st2, i, tScaled.tValue, a) ELSE st2}}) :
        st2 \in {TriggerInfoStep(
                     [st EXCEPT !.tDataBufferPointer = tScaled.tDataBufferPointer,
                                !.tXScaleCounter = tScaled.tXScaleCounter],
                     i, tScaled.tValue, a)}}) :
        tScaled \in {ColumnValue(st, a)}}) :
        st \in {stEntry}})

RECURSIVE ColumnLoop(_, _, _)
ColumnLoop(st, i, a) ==
    IF i < a.aLength THEN ColumnLoop(ColumnStep(st, i, a), i + 1, a) ELSE st

\* one run of the do loop: the column loop of one track
TrackLoop(st, a) ==
    ColumnLoop([st EXCEPT !.tXScaleCounter = IF DisplayControl.XScale <= 0
                                             THEN -DisplayControl.XScale ELSE @],
               0, a)

drawDataBuffer(aDataBufferPointer, aLength, aColor, aClearBeforeColor, aDrawMode, aDrawAlsoMin, tBeyond) ==
    LET a == [aLength |-> aLength, aColor |-> aColor,
              aClearBeforeColor |-> aClearBeforeColor, aDrawMode |-> aDrawMode,
              tBeyond |-> tBeyond]
        tMinOnly == aDrawMode = "DRAW_MODE_CLEAR_OLD_MIN"
        entry == [track |-> IF tMinOnly THEN 1 ELSE 0,
                  buffer |-> IF tMinOnly THEN DisplayBufferMin ELSE DisplayBuffer,
                  ScreenBufferReadPointer |-> 0,
                  ScreenBufferWritePointer2 |-> 0,
                  DisplayBuffer2 |-> DisplayBuffer2,
                  tDataBufferPointer |-> aDataBufferPointer,
                  tXScaleCounter |-> DisplayControl.XScale,
                  tLastValue |-> 0,
                  tLastValueClear |-> 0,
                  tCounterForTimingGridRestore |-> 0,
                  overlay |-> <<>>,
                  calls |-> <<>>,
                  columns |-> <<>>]
        tBoth == aDrawMode # "DRAW_MODE_CLEAR_OLD_MIN" /\ aDrawAlsoMin
        chart(aChartIndex, aDoDrawDirect, buffer) ==
            SinkDrawChartByteBuffer(aColor, aClearBeforeColor, aChartIndex, aDoDrawDirect,
                                    buffer, aLength)
    IN  \E first \in {TrackLoop(entry, a)} :
        \E exit \in {IF tBoth
                      THEN \* Initialize for second loop (min values)
                           TrackLoop([first EXCEPT
                                         !.track = 1,
                                         !.buffer = DisplayBufferMin,
                                         !.ScreenBufferReadPointer = 0,
                                         !.tDataBufferPointer =
                                             aDataBufferPointer + DATABUFFER_MIN_OFFSET,
                                         !.calls = Append(@, chart(0, FALSE, first.buffer)),
                                         !.columns = <<>>], a)
                      ELSE first} :
        /\ DisplayBuffer' = IF tMinOnly THEN DisplayBuffer ELSE first.buffer
        /\ DisplayBufferMin' = IF tMinOnly \/ tBoth THEN exit.buffer ELSE DisplayBufferMin
        /\ DisplayBuffer2' = exit.DisplayBuffer2
        /\ sink' = Append(exit.calls,
                          IF tMinOnly \/ tBoth THEN chart(1, TRUE, exit.buffer)
                          ELSE chart(0, TRUE, exit.buffer))
        /\ lastCall' = [op |-> "drawDataBuffer",
                        aDataBufferPointer |-> aDataBufferPointer,
                        aLength |-> aLength,
                        aClearBeforeColor |-> aClearBeforeColor,
                        aDrawMode |-> aDrawMode,
                        aDrawAlsoMin |-> aDrawAlsoMin,
                        before |-> [DisplayBuffer |-> DisplayBuffer,
                                    DisplayBufferMin |-> DisplayBufferMin,
                                    DisplayBuffer2 |-> DisplayBuffer2],
                        tracks |-> IF tBoth THEN <<first.columns, exit.columns>>
                                   ELSE <<first.columns>>,
                        firstTrack |-> entry.track,
                        consumed |-> first.tDataBufferPointer - aDataBufferPointer,
                        overlay |-> exit.overlay]
        /\ history' = [history EXCEPT !.passes = @ + 1]
        /\ UNCHANGED <<buttonVars, LOCAL_DISPLAY_EXISTS, MeasurementControl, DisplayControl,
                       DataBufferControl, DisplayBufferFFT, signal>>

(***************************************************************************)
(* Drawing whole windows: the data buffer holds a finished acquisition,    *)
(* the caller draws or erases windows of it.                               *)
(***************************************************************************)
\* a raw value below the range offset
RawBelow == 50
\* the raw trigger level, between RawBelow and RawHigh
BulkTriggerLevel == 130
\* every PhaseStride-th phase of the input signal is the start of a data buffer
PhaseStride == 3

\* the raw value of a kind of sample
RawOfKind(kind) ==
    CASE kind = 0 -> RawHigh
      [] kind = 1 -> DATABUFFER_INVISIBLE_RAW_VALUE
      [] OTHER -> RawBelow

InitBulk ==
    /\ ZeroButtons
    /\ LOCAL_DISPLAY_EXISTS \in BOOLEAN
    /\ signal \in {n \in 0..(Len(SignalKinds) - 1) : n % PhaseStride = 0}
    /\ MeasurementControl = [ZeroMeasurementControl EXCEPT
                                 !.RawOffsetValueForDisplayRange = 100,
                                 !.RawTriggerLevel = BulkTriggerLevel]
    /\ \E r \in (-MaxXScale)..MaxXScale, t \in BOOLEAN, p \in BOOLEAN :
           /\ p => LOCAL_DISPLAY_EXISTS
           /\ DisplayControl = [ZeroDisplayControl EXCEPT !.XScale = r,
                                                          !.showTriggerInfoLine = t,
                                                          !.drawPixelMode = p]
    /\ DataBufferControl =
           [ZeroDataBufferControl EXCEPT
                !.DataBuffer = [j \in DataIndices |->
                                    RawOfKind(SignalKinds[((signal + j) % Len(SignalKinds)) + 1])]]
    /\ ZeroBuffers
    /\ lastCall = [op |-> "none"]
    /\ sink = <<>>
    /\ history = ZeroHistory

\* what is read behind the end of an array is any value
BeyondValues(aClearBeforeColor) ==
    IF LOCAL_DISPLAY_EXISTS /\ aClearBeforeColor # NO_COLOR
    THEN {0, DISPLAYBUFFER_INVISIBLE_VALUE} ELSE {0}

\* the caller draws or erases a window of the data buffer
DrawWindow ==
    /\ history.passes = 0
    /\ \E aLength \in {DSO_DISPLAY_WIDTH - 1, DSO_DISPLAY_WIDTH},
          aClearBeforeColor \in {NO_COLOR, "COLOR_BACKGROUND_DSO"},
          aDrawMode \in DrawModes,
          aDrawAlsoMin \in BOOLEAN :
           \E tBeyond \in BeyondValues(aClearBeforeColor) :
               drawDataBuffer(DATABUFFER_PRE_TRIGGER_SIZE, aLength, "COLOR_DATA_HOLD",
                              aClearBeforeColor, aDrawMode, aDrawAlsoMin, tBeyond)

\* and draws or erases the same window once more
DrawWindowAgain ==
    /\ history.passes = 1
    /\ \E aClearBeforeColor \in {NO_COLOR, "COLOR_BACKGROUND_DSO"},
          aDrawMode \in DrawModes :
           \E tBeyond \in BeyondValues(aClearBeforeColor) :
               drawDataBuffer(lastCall.aDataBufferPointer, lastCall.aLength, "COLOR_DATA_HOLD",
                              aClearBeforeColor, aDrawMode, lastCall.aDrawAlsoMin, tBeyond)

NextBulk ==
    \/ DrawWindow
    \/ DrawWindowAgain

SpecBulk == InitBulk /\ [][NextBulk]_vars

(***************************************************************************)
(* The spectrum display on its own: the main loop switches it on and off,  *)
(* clears its area and draws the spectrum computeFFT() yields.             *)
(***************************************************************************)
\* largest bin value of the spectra drawn here
MaxFFTBinValue == 4

FFTSpectra == {f \in [FFTBars -> 0..MaxFFTBinValue] : \E b \in FFTBars : f[b] > 0}

SinkFillRectRel(x, y, width, height, color) ==
    [fn |-> "fillRectRel", x |-> x, y |-> y, width |-> width, height |-> height,
     color |-> color]

InitFFT ==
    /\ ZeroButtons
    /\ LOCAL_DISPLAY_EXISTS = FALSE
    /\ MeasurementControl = ZeroMeasurementControl
    /\ \E show \in BOOLEAN : DisplayControl = [ZeroDisplayControl EXCEPT !.ShowFFT = show]
    /\ DataBufferControl = ZeroDataBufferControl
    /\ ZeroBuffers
    /\ lastCall = [op |-> "none"]
    /\ sink = <<>>
    /\ history = ZeroHistory
    /\ signal = 0

\* a call of draw128FFTValuesFast(aColor) for which computeFFT() yields bins
DrawFFT(aColor, bins) ==
    LET exit == draw128FFTValuesFast(aColor, bins, DisplayBufferFFT, MeasurementControl)
    IN  /\ DisplayBufferFFT' = exit.buffer
        /\ MeasurementControl' = exit.control
        /\ sink' = exit.calls
        /\ lastCall' = [op |-> "draw128FFTValuesFast",
                        aColor |-> aColor,
                        bins |-> bins,
                        ShowFFT |-> DisplayControl.ShowFFT,
                        before |-> DisplayBufferFFT,
                        previous |-> IF lastCall.op = "draw128FFTValuesFast"
                                        /\ lastCall.ShowFFT
                                     THEN <<lastCall.bins>> ELSE <<>>]
        /\ UNCHANGED <<buttonVars, LOCAL_DISPLAY_EXISTS, DisplayControl, DataBufferControl,
                       DisplayBuffer, DisplayBufferMin, DisplayBuffer2, history, signal>>

\* clearFFTValuesOnDisplay()
clearFFTValuesOnDisplay ==
    /\ sink' = <<SinkFillRectRel(0, DSO_DISPLAY_HEIGHT - HORIZONTAL_GRID_HEIGHT,
                                 DSO_DISPLAY_WIDTH, HORIZONTAL_GRID_HEIGHT,
                                 "COLOR_BACKGROUND_DSO")>>
    /\ lastCall' = [op |-> "clearFFTValuesOnDisplay"]
    /\ UNCHANGED <<buttonVars, LOCAL_DISPLAY_EXISTS, MeasurementControl, DisplayControl,
                   DataBufferControl, DisplayBuffer, DisplayBufferMin, DisplayBuffer2,
                   DisplayBufferFFT, history, signal>>

\* the user switches the spectrum display on or off
SetShowFFT(b) ==
    /\ DisplayControl.ShowFFT # b
    /\ DisplayControl' = [DisplayControl EXCEPT !.ShowFFT = b]
    /\ lastCall' = [op |-> "ShowFFT"]
    /\ sink' = <<>>
    /\ UNCHANGED <<buttonVars, LOCAL_DISPLAY_EXISTS, MeasurementControl, DataBufferControl,
                   DisplayBuffer, DisplayBufferMin, DisplayBuffer2, DisplayBufferFFT,
                   history, signal>>

NextFFT ==
    \/ \E bins \in FFTSpectra : DrawFFT("COLOR_FFT_DATA", bins)
    \/ clearFFTValuesOnDisplay
    \/ \E b \in BOOLEAN : SetShowFFT(b)

SpecFFT == InitFFT /\ [][NextFFT]_vars

(***************************************************************************)
(* Grid, voltage labels and trigger line.  The metrics of the 11 pixel     *)
(* font and PIXEL_AFTER_LABEL are values of headers that are not part of   *)
(* the sources at hand.  A label is the pair of the range and the number   *)
(* of grid rows above 0 Volt its voltage is computed from; the x position  *)
(* of a label depends on the length of its text and is left out.           *)
(***************************************************************************)
TEXT_SIZE_11_WIDTH == 7
TEXT_SIZE_11_HEIGHT == 12
TEXT_SIZE_11_ASCEND == 9
PIXEL_AFTER_LABEL == 2

SinkDrawLineRel(x, y, dx, dy, color) ==
    [fn |-> "drawLineRel", x |-> x, y |-> y, dx |-> dx, dy |-> dy, color |-> color]

SinkDrawText(y, text, color, bgColor) ==
    [fn |-> "drawText", y |-> y, text |-> text, color |-> color, bgColor |-> bgColor]

\* the values of tXPos in for (tXPos = TIMING_GRID_WIDTH - 1; tXPos < tLimit;
\* tXPos += TIMING_GRID_WIDTH), in order
GridLineColumns(tLimit) ==
    [k \in 1..(tLimit \div TIMING_GRID_WIDTH) |-> (k * TIMING_GRID_WIDTH) - 1]

\* the calls of clearTriggerLine(aTriggerLevelDisplayValue)
clearTriggerLineCalls(aTriggerLevelDisplayValue) ==
    <<SinkDrawLineRel(0, aTriggerLevelDisplayValue, DSO_DISPLAY_WIDTH, 0,
                      "COLOR_BACKGROUND_DSO")>>
    \o [k \in 1..Len(GridLineColumns(DSO_DISPLAY_WIDTH - 1)) |->
            SinkDrawPixel(GridLineColumns(DSO_DISPLAY_WIDTH - 1)[k],
                          aTriggerLevelDisplayValue, "COLOR_GRID_LINES")]
    \o (IF ~MeasurementControl.isRunning
        THEN SelectSeq([i \in 1..DSO_DISPLAY_WIDTH |->
                           SinkDrawPixel(i - 1, DisplayBuffer[i - 1], "COLOR_DATA_HOLD")],
                       LAMBDA call : call.y = aTriggerLevelDisplayValue)
        ELSE <<>>)

\* a trigger line that is drawn whatever the trigger mode is
drawTriggerLineCallsIgnoresMode ==
    IF DisplayControl.TriggerLevelDisplayValue # 0
    THEN <<SinkDrawLineRel(0, DisplayControl.TriggerLevelDisplayValue, DSO_DISPLAY_WIDTH, 0,
                           "COLOR_TRIGGER_LINE")>>
    ELSE <<>>

\* the calls of drawTriggerLine()
drawTriggerLineCalls ==
    IF DisplayControl.TriggerLevelDisplayValue # 0
       /\ MeasurementControl.TriggerMode # "TRIGGER_MODE_OFF"
    THEN <<SinkDrawLineRel(0, DisplayControl.TriggerLevelDisplayValue, DSO_DISPLAY_WIDTH, 0,
                           "COLOR_TRIGGER_LINE")>>
    ELSE <<>>

\* the values of tYPos in for (tYPos = DISPLAY_VALUE_FOR_ZERO; tYPos > 0;
\* tYPos -= HORIZONTAL_GRID_HEIGHT), in order
GridLineRows ==
    [k \in 1..(((DISPLAY_VALUE_FOR_ZERO - 1) \div HORIZONTAL_GRID_HEIGHT) + 1) |->
        DISPLAY_VALUE_FOR_ZERO - ((k - 1) * HORIZONTAL_GRID_HEIGHT)]

\* labels that are cleared if the range has changed, not if the offset has
LabelChangedIgnoresOffset ==
    DisplayControl.LastDisplayRangeIndex # MeasurementControl.DisplayRangeIndexForPrint

\* tLabelChanged
LabelChanged ==
    \/ DisplayControl.LastDisplayRangeIndex # MeasurementControl.DisplayRangeIndexForPrint
    \/ DisplayControl.LastOffsetGridCount # MeasurementControl.OffsetGridCount

\* the calls for the k-th horizontal line and its label
GridRowCalls(k, tLabelChanged, aColor) ==
    LET tYPos == GridLineRows[k]
        tCaptionOffset == IF k = 1 THEN 1 ELSE -(TEXT_SIZE_11_ASCEND \div 2)
        tY == tYPos - tCaptionOffset
        tGridCount == MeasurementControl.OffsetGridCount + (k - 1)
    IN  (IF tLabelChanged
         THEN <<SinkFillRect(DSO_DISPLAY_WIDTH - PIXEL_AFTER_LABEL - (5 * TEXT_SIZE_11_WIDTH),
                             tY - TEXT_SIZE_11_ASCEND,
                             DSO_DISPLAY_WIDTH - PIXEL_AFTER_LABEL + 1,
                             tY + TEXT_SIZE_11_HEIGHT - TEXT_SIZE_11_ASCEND,
                             "COLOR_BACKGROUND_DSO"),
                SinkDrawLineRel((9 * TIMING_GRID_WIDTH) - 1, tY, 0, TEXT_SIZE_11_HEIGHT,
                                aColor)>>
         ELSE <<>>)
        \o <<SinkDrawLineRel(0, tYPos, DSO_DISPLAY_WIDTH, 0, aColor),
             SinkDrawText(tYPos - tCaptionOffset,
                          [range |-> MeasurementControl.DisplayRangeIndexForPrint,
                           gridCount |-> tGridCount],
                          IF tGridCount >= 0 THEN "COLOR_HOR_GRID_LINE_LABEL"
                          ELSE "COLOR_HOR_GRID_LINE_LABEL_NEGATIVE",
                          "COLOR_BACKGROUND_DSO")>>

RECURSIVE GridRowLoop(_, _, _)
\* the calls for the horizontal lines from the k-th on
GridRowLoop(k, tLabelChanged, aColor) ==
    IF k > Len(GridLineRows) THEN <<>>
    ELSE GridRowCalls(k, tLabelChanged, aColor) \o GridRowLoop(k + 1, tLabelChanged, aColor)

\* drawGridLinesWithHorizLabelsAndTriggerLine(aColor)
drawGridLinesWithHorizLabelsAndTriggerLine(aColor) ==
    /\ sink' = [k \in 1..Len(GridLineColumns(DSO_DISPLAY_WIDTH)) |->
                   SinkDrawLineRel(GridLineColumns(DSO_DISPLAY_WIDTH)[k], 0, 0,
                                   DSO_DISPLAY_HEIGHT, aColor)]
               \o GridRowLoop(1, LabelChanged, aColor)
               \o drawTriggerLineCalls
    /\ DisplayControl' =
           IF LabelChanged
           THEN [DisplayControl EXCEPT
                    !.LastDisplayRangeIndex = MeasurementControl.DisplayRangeIndexForPrint,
                    !.LastOffsetGridCount = MeasurementControl.OffsetGridCount]
           ELSE DisplayControl
    /\ lastCall' = [op |-> "drawGridLinesWithHorizLabelsAndTriggerLine",
                    aColor |-> aColor,
                    LastDisplayRangeIndex |-> DisplayControl.LastDisplayRangeIndex,
                    LastOffsetGridCount |-> DisplayControl.LastOffsetGridCount]
    /\ UNCHANGED <<buttonVars, LOCAL_DISPLAY_EXISTS, MeasurementControl, DataBufferControl,
                   DisplayBuffer, DisplayBufferMin, DisplayBuffer2, DisplayBufferFFT,
                   history, signal>>

\* clearTriggerLine(aTriggerLevelDisplayValue)
clearTriggerLine(aTriggerLevelDisplayValue) ==
    /\ sink' = clearTriggerLineCalls(aTriggerLevelDisplayValue)
    /\ lastCall' = [op |-> "clearTriggerLine",
                    aTriggerLevelDisplayValue |-> aTriggerLevelDisplayValue]
    /\ UNCHANGED <<buttonVars, LOCAL_DISPLAY_EXISTS, MeasurementControl, DisplayControl,
                   DataBufferControl, DisplayBuffer, DisplayBufferMin, DisplayBuffer2,
                   DisplayBufferFFT, history, signal>>

\* drawTriggerLine()
drawTriggerLine ==
    /\ sink' = drawTriggerLineCalls
    /\ lastCall' = [op |-> "drawTriggerLine"]
    /\ UNCHANGED <<buttonVars, LOCAL_DISPLAY_EXISTS, MeasurementControl, DisplayControl,
                   DataBufferControl, DisplayBuffer, DisplayBufferMin, DisplayBuffer2,
                   DisplayBufferFFT, history, signal>>

(***************************************************************************)
(* The grid on its own: the user changes range, offset, trigger level and  *)
(* trigger mode and starts and stops the acquisition; the main loop        *)
(* redraws the grid and moves the trigger line.  DisplayBuffer holds a     *)
(* waveform drawn before.                                                  *)
(***************************************************************************)
\* the ranges and the offsets the user chooses from
MaxGridRange == 1
MaxOffsetGridCount == 1
GridRanges == 0..MaxGridRange
GridOffsets == (-MaxOffsetGridCount)..MaxOffsetGridCount
\* rows of the trigger line: none, and the rows of RawHigh and of RawBelow
TriggerRows == {0, getDisplayFrowRawInputValue(RawHigh), getDisplayFrowRawInputValue(RawBelow)}
TriggerModes == {"TRIGGER_MODE_AUTOMATIC", "TRIGGER_MODE_OFF"}

InitGrid ==
    /\ ZeroButtons
    /\ LOCAL_DISPLAY_EXISTS = FALSE
    /\ MeasurementControl =
           [ZeroMeasurementControl EXCEPT !.RawOffsetValueForDisplayRange = 100]
    /\ DisplayControl = ZeroDisplayControl
    /\ DataBufferControl = ZeroDataBufferControl
    /\ DisplayBuffer \in [Columns -> TriggerRows \ {0}]
    /\ DisplayBufferMin = [x \in Columns |-> 0]
    /\ DisplayBuffer2 = [x \in Columns |-> 0]
    /\ DisplayBufferFFT = [b \in FFTBars |-> 0]
    /\ lastCall = [op |-> "none"]
    /\ sink = <<>>
    /\ history = ZeroHistory
    /\ signal = 0

\* a change of a setting by the user interface
SetGridSetting(control, display) ==
    /\ <<control, display>> # <<MeasurementControl, DisplayControl>>
    /\ MeasurementControl' = control
    /\ DisplayControl' = display
    /\ lastCall' = [op |-> "setting"]
    /\ sink' = <<>>
    /\ UNCHANGED <<buttonVars, LOCAL_DISPLAY_EXISTS, DataBufferControl, DisplayBuffer,
                   DisplayBufferMin, DisplayBuffer2, DisplayBufferFFT, history, signal>>

SetDisplayRange ==
    \E r \in GridRanges :
        SetGridSetting([MeasurementControl EXCEPT !.DisplayRangeIndexForPrint = r],
                       DisplayControl)

SetOffsetGridCount ==
    \E n \in GridOffsets :
        SetGridSetting([MeasurementControl EXCEPT !.OffsetGridCount = n], DisplayControl)

SetRunning ==
    \E b \in BOOLEAN :
        SetGridSetting([MeasurementControl EXCEPT !.isRunning = b], DisplayControl)

SetTriggerMode ==
    \E m \in TriggerModes :
        SetGridSetting([MeasurementControl EXCEPT !.TriggerMode = m], DisplayControl)

SetTriggerLevelDisplayValue ==
    \E y \in TriggerRows :
        SetGridSetting(MeasurementControl,
                       [DisplayControl EXCEPT !.TriggerLevelDisplayValue = y])

NextGrid ==
    \/ drawGridLinesWithHorizLabelsAndTriggerLine("COLOR_GRID_LINES")
    \/ \E y \in TriggerRows : clearTriggerLine(y)
    \/ drawTriggerLine
    \/ SetDisplayRange
    \/ SetOffsetGridCount
    \/ SetRunning
    \/ SetTriggerMode
    \/ SetTriggerLevelDisplayValue

SpecGrid == InitGrid /\ [][NextGrid]_vars

(***************************************************************************)
(* BDButton: the stubs of the buttons of the remote display.  A request to *)
(* the remote display is a record of its function code, the handle it      *)
(* names (-1 if none) and its subfunction; sink holds the requests of the  *)
(* last operation.  history records which handles were announced with      *)
(* FUNCTION_BUTTON_CREATE, the init and deinit calls since the last        *)
(* resetAllButtons, and whether every deinit since then was applied to the *)
(* button that was initialised last.                                       *)
(***************************************************************************)
\* the init calls between two calls of resetAllButtons
MaxInits == 3

NO_HANDLE == -1

USART_isBluetoothPaired == BluetoothPaired

\* sendUSARTArgs / sendUSARTArgsAndByteBuffer
SendUSARTArgs(aFunctionTag, aButtonHandle, aSubFunction) ==
    [fn |-> aFunctionTag, handle |-> aButtonHandle, sub |-> aSubFunction]

\* the requests of an operation: sent only if paired
IfPaired(request) == IF USART_isBluetoothPaired THEN <<request>> ELSE <<>>

ZeroButtonHistory == [announced |-> {}, inits |-> 0, deinits |-> 0, ordered |-> TRUE]

\* a counter that init leaves as it is
NextButtonNumberStays(tButtonNumber) == tButtonNumber

\* sLocalButtonIndex++
NextButtonNumber(tButtonNumber) == tButtonNumber + 1

\* BDButton::init of the object o; the application calls it for a button
\* that is not initialised
init(o) ==
    LET tButtonNumber == sLocalButtonIndex
    IN  /\ ~buttons[o].initialised
        /\ history.inits < MaxInits
        /\ sLocalButtonIndex' = NextButtonNumber(tButtonNumber)
        /\ sink' = IfPaired(SendUSARTArgs("FUNCTION_BUTTON_CREATE", tButtonNumber, ""))
        /\ buttons' = [buttons EXCEPT ![o] =
               [mButtonHandle |-> tButtonNumber,
                mLocalButtonPtr |-> IF LOCAL_DISPLAY_EXISTS THEN "allocated" ELSE "none",
                initialised |-> TRUE]]
        /\ history' = [history EXCEPT
               !.announced = IF USART_isBluetoothPaired THEN @ \cup {tButtonNumber} ELSE @,
               !.inits = @ + 1]
        /\ lastCall' = [op |-> "init", button |-> o, paired |-> USART_isBluetoothPaired,
                        entryIndex |-> tButtonNumber]
        /\ UNCHANGED <<LOCAL_DISPLAY_EXISTS, MeasurementControl, DisplayControl,
                       DataBufferControl, DisplayBuffer, DisplayBufferMin, DisplayBuffer2,
                       DisplayBufferFFT, signal, BluetoothPaired>>

\* BDButton::deinit of the object o (only with a local display); it is called
\* for buttons that hold a TouchButton, and not with the counter at 0
deinit(o) ==
    /\ LOCAL_DISPLAY_EXISTS
    /\ buttons[o].mLocalButtonPtr = "allocated"
    /\ sLocalButtonIndex > 0
    /\ sLocalButtonIndex' = sLocalButtonIndex - 1
    /\ buttons' = [buttons EXCEPT ![o].mLocalButtonPtr = "deleted",
                                  ![o].initialised = FALSE]
    /\ sink' = <<>>
    /\ history' = [history EXCEPT
           !.deinits = @ + 1,
           !.ordered = @ /\ buttons[o].initialised
                         /\ buttons[o].mButtonHandle = sLocalButtonIndex - 1]
    /\ lastCall' = [op |-> "deinit", button |-> o, paired |-> USART_isBluetoothPaired]
    /\ UNCHANGED <<LOCAL_DISPLAY_EXISTS, MeasurementControl, DisplayControl,
                   DataBufferControl, DisplayBuffer, DisplayBufferMin, DisplayBuffer2,
                   DisplayBufferFFT, signal, BluetoothPaired>>

\* the operations on a button are called for objects that init was called
\* for, with a local display for objects that hold their TouchButton
ButtonInUse(o) ==
    /\ buttons[o].mButtonHandle # NO_HANDLE
    /\ LOCAL_DISPLAY_EXISTS => buttons[o].mLocalButtonPtr = "allocated"

\* an operation that changes the local button, if there is one, and sends
\* one request that names the handle of the object
ButtonRequest(o, op, aFunctionTag, aSubFunction) ==
    /\ ButtonInUse(o)
    /\ sink' = IfPaired(SendUSARTArgs(aFunctionTag, buttons[o].mButtonHandle, aSubFunction))
    /\ lastCall' = [op |-> op, button |-> o, paired |-> USART_isBluetoothPaired]
    /\ UNCHANGED <<LOCAL_DISPLAY_EXISTS, MeasurementControl, DisplayControl,
                   DataBufferControl, DisplayBuffer, DisplayBufferMin, DisplayBuffer2,
                   DisplayBufferFFT, history, signal, buttonVars>>

drawButton(o) == ButtonRequest(o, "drawButton", "FUNCTION_BUTTON_DRAW", "")

removeButton(o) == ButtonRequest(o, "removeButton", "FUNCTION_BUTTON_REMOVE", "")

drawCaption(o) == ButtonRequest(o, "drawCaption", "FUNCTION_BUTTON_DRAW_CAPTION", "")

setCaption(o, doDrawButton) ==
    ButtonRequest(o, "setCaption",
                  IF doDrawButton THEN "FUNCTION_BUTTON_SET_CAPTION_AND_DRAW_BUTTON"
                  ELSE "FUNCTION_BUTTON_SET_CAPTION", "")

setValue(o) ==
    ButtonRequest(o, "setValue", "FUNCTION_BUTTON_SETTINGS", "SUBFUNCTION_BUTTON_SET_VALUE")

setValueAndDraw(o) ==
    ButtonRequest(o, "setValueAndDraw", "FUNCTION_BUTTON_SETTINGS",
                  "SUBFUNCTION_BUTTON_SET_VALUE_AND_DRAW")

setButtonColor(o) ==
    ButtonRequest(o, "setButtonColor", "FUNCTION_BUTTON_SETTINGS",
                  "SUBFUNCTION_BUTTON_SET_BUTTON_COLOR")

setButtonColorAndDraw(o) ==
    ButtonRequest(o, "setButtonColorAndDraw", "FUNCTION_BUTTON_SETTINGS",
                  "SUBFUNCTION_BUTTON_SET_BUTTON_COLOR_AND_DRAW")

setPosition(o) ==
    ButtonRequest(o, "setPosition", "FUNCTION_BUTTON_SETTINGS",
                  "SUBFUNCTION_BUTTON_SET_POSITION")

activate(o) ==
    ButtonRequest(o, "activate", "FUNCTION_BUTTON_SETTINGS", "SUBFUNCTION_BUTTON_SET_ACTIVE")

deactivate(o) ==
    ButtonRequest(o, "deactivate", "FUNCTION_BUTTON_SETTINGS",
                  "SUBFUNCTION_BUTTON_RESET_ACTIVE")

\* BDButton::resetAllButtons
resetAllButtons ==
    /\ sLocalButtonIndex' = 0
    /\ buttons' = [o \in ButtonObjects |-> [buttons[o] EXCEPT !.initialised = FALSE]]
    /\ sink' = <<>>
    /\ history' = [ZeroButtonHistory EXCEPT !.announced = history.announced]
    /\ lastCall' = [op |-> "resetAllButtons", button |-> 0,
                    paired |-> USART_isBluetoothPaired]
    /\ UNCHANGED <<LOCAL_DISPLAY_EXISTS, MeasurementControl, DisplayControl,
                   DataBufferControl, DisplayBuffer, DisplayBufferMin, DisplayBuffer2,
                   DisplayBufferFFT, signal, BluetoothPaired>>

\* a static function that sends one request without a handle
GlobalRequest(op, aFunctionTag, aSubFunction) ==
    /\ sink' = IfPaired(SendUSARTArgs(aFunctionTag, NO_HANDLE, aSubFunction))
    /\ lastCall' = [op |-> op, button |-> 0, paired |-> USART_isBluetoothPaired]
    /\ UNCHANGED <<LOCAL_DISPLAY_EXISTS, MeasurementControl, DisplayControl,
                   DataBufferControl, DisplayBuffer, DisplayBufferMin, DisplayBuffer2,
                   DisplayBufferFFT, history, signal, buttonVars>>

setGlobalFlags == GlobalRequest("setGlobalFlags", "FUNCTION_BUTTON_GLOBAL_SETTINGS", "")

setButtonsTouchTone ==
    GlobalRequest("setButtonsTouchTone", "FUNCTION_BUTTON_GLOBAL_SETTINGS",
                  "BUTTONS_SET_BEEP_TONE")

activateAllButtons ==
    GlobalRequest("activateAllButtons", "FUNCTION_BUTTON_ACTIVATE_ALL", "")

deactivateAllButtons ==
    GlobalRequest("deactivateAllButtons", "FUNCTION_BUTTON_DEACTIVATE_ALL", "")

\* the connection to the remote display is made or lost
SetBluetoothPaired(b) ==
    /\ BluetoothPaired # b
    /\ BluetoothPaired' = b
    /\ sink' = <<>>
    /\ lastCall' = [op |-> "paired", button |-> 0, paired |-> b]
    /\ UNCHANGED <<LOCAL_DISPLAY_EXISTS, MeasurementControl, DisplayControl,
                   DataBufferControl, DisplayBuffer, DisplayBufferMin, DisplayBuffer2,
                   DisplayBufferFFT, history, signal, sLocalButtonIndex, buttons>>

InitButtons ==
    /\ LOCAL_DISPLAY_EXISTS \in BOOLEAN
    /\ MeasurementControl = ZeroMeasurementControl
    /\ DisplayControl = ZeroDisplayControl
    /\ DataBufferControl = ZeroDataBufferControl
    /\ ZeroBuffers
    /\ sLocalButtonIndex = 0
    /\ buttons = [o \in ButtonObjects |-> ZeroButton]
    /\ BluetoothPaired \in BOOLEAN
    /\ lastCall = [op |-> "none", button |-> 0, paired |-> BluetoothPaired]
    /\ sink = <<>>
    /\ history = ZeroButtonHistory
    /\ signal = 0

NextButtons ==
    \/ \E o \in ButtonObjects : init(o)
    \/ \E o \in ButtonObjects : deinit(o)
    \/ \E o \in ButtonObjects : drawButton(o)
    \/ \E o \in ButtonObjects : removeButton(o)
    \/ \E o \in ButtonObjects : drawCaption(o)
    \/ \E o \in ButtonObjects, doDrawButton \in BOOLEAN : setCaption(o, doDrawButton)
    \/ \E o \in ButtonObjects : setValue(o)
    \/ \E o \in ButtonObjects : setValueAndDraw(o)
    \/ \E o \in ButtonObjects : setButtonColor(o)
    \/ \E o \in ButtonObjects : setButtonColorAndDraw(o)
    \/ \E o \in ButtonObjects : setPosition(o)
    \/ \E o \in ButtonObjects : activate(o)
    \/ \E o \in ButtonObjects : deactivate(o)
    \/ resetAllButtons
    \/ setGlobalFlags
    \/ setButtonsTouchTone
    \/ activateAllButtons
    \/ deactivateAllButtons
    \/ \E b \in BOOLEAN : SetBluetoothPaired(b)

SpecButtons == InitButtons /\ [][NextButtons]_vars

(***************************************************************************)
(* Properties of the conversion routines (SpecConversion)                  *)
(***************************************************************************)
IsConversion == lastCall.op = "getDisplayFrowRawInputValue"
IsRoundTrip == lastCall.op = "testDSOConversions"

\* the raw value less the AC zero reading (AC ranges only) and the range offset
ClaimOffsetRaw(v) ==
    v - (IF MeasurementControl.ChannelIsACMode
         THEN MeasurementControl.RawDSOReadingACZero ELSE 0)
      - MeasurementControl.RawOffsetValueForDisplayRange

ClaimFactor == ScaleFactorRawToDisplayShift18[MeasurementControl.DisplayRangeIndex + 1]

\* floor(a * f / 2^18) in unbounded arithmetic, for a >= 0
ClaimScaled(a, f) == ((a * (f \div 512)) + ((a * (f % 512)) \div 512)) \div 512

\* the row the documented steps give for a raw value at or above the offset
ClaimReferenceRow(v) ==
    LET s == ClaimScaled(ClaimOffsetRaw(v), ClaimFactor)
    IN  IF s > DISPLAY_VALUE_FOR_ZERO THEN 0 ELSE DISPLAY_VALUE_FOR_ZERO - s

\* v is in the domain where the conversion is neither clamped nor clipped
ClaimPreClip(v) ==
    /\ v # DATABUFFER_INVISIBLE_RAW_VALUE
    /\ ClaimOffsetRaw(v) >= 0
    /\ ClaimScaled(ClaimOffsetRaw(v), ClaimFactor) <= DISPLAY_VALUE_FOR_ZERO

\* C3: getDisplayFrowRawInputValue returns the sentinel or a row in
\* [0, DISPLAY_VALUE_FOR_ZERO], for every 16 bit raw value and every
\* configuration, and the sentinel only for the no-data marker.
C3_RowOrSentinel ==
    IsConversion =>
        /\ \/ lastCall.result = DISPLAYBUFFER_INVISIBLE_VALUE
           \/ lastCall.result \in 0..DISPLAY_VALUE_FOR_ZERO
        /\ lastCall.result = DISPLAYBUFFER_INVISIBLE_VALUE
               => lastCall.aAdcValue = DATABUFFER_INVISIBLE_RAW_VALUE

\* a raw value whose 32 bit product overflows is converted to a row below
\* the display
C3_Witness ==
    /\ IsConversion
    /\ ~MeasurementControl.ChannelIsACMode
    /\ MeasurementControl.RawOffsetValueForDisplayRange = 100
    /\ ClaimFactor = 2 ^ DSO_SCALE_FACTOR_SHIFT
    /\ lastCall.aAdcValue # DATABUFFER_INVISIBLE_RAW_VALUE
    /\ lastCall.result > DISPLAYBUFFER_INVISIBLE_VALUE

\* C8 as stated: every raw value below the range offset (AC ranges: after the
\* AC zero reading is subtracted) is converted to DISPLAY_VALUE_FOR_ZERO.
C8_BelowOffsetIsZeroRow ==
    (IsConversion /\ ClaimOffsetRaw(lastCall.aAdcValue) < 0)
        => lastCall.result = DISPLAY_VALUE_FOR_ZERO

\* C8 amended: every raw value other than the no-data marker that is below
\* the range offset is converted to DISPLAY_VALUE_FOR_ZERO; the marker is
\* converted to the sentinel whatever the offset is.
C8_BelowOffsetIsZeroRowUnlessMarker ==
    IsConversion =>
        /\ (lastCall.aAdcValue # DATABUFFER_INVISIBLE_RAW_VALUE
            /\ ClaimOffsetRaw(lastCall.aAdcValue) < 0)
               => lastCall.result = DISPLAY_VALUE_FOR_ZERO
        /\ lastCall.aAdcValue = DATABUFFER_INVISIBLE_RAW_VALUE
               => lastCall.result = DISPLAYBUFFER_INVISIBLE_VALUE

\* a negative intermediate value in a AC range, clamped
C8_Witness ==
    /\ IsConversion
    /\ MeasurementControl.ChannelIsACMode
    /\ lastCall.aAdcValue # DATABUFFER_INVISIBLE_RAW_VALUE
    /\ lastCall.aAdcValue >= MeasurementControl.RawOffsetValueForDisplayRange
    /\ ClaimOffsetRaw(lastCall.aAdcValue) < 0
    /\ lastCall.result = DISPLAY_VALUE_FOR_ZERO

\* C9: for every raw value that is not the marker and is at or above the
\* range offset the result is the reference row, 0 if the scaled value
\* exceeds DISPLAY_VALUE_FOR_ZERO and DISPLAY_VALUE_FOR_ZERO - scaled
\* otherwise, and the 32 bit product does not overflow.
C9_EqualsReferenceRow ==
    (IsConversion /\ lastCall.aAdcValue # DATABUFFER_INVISIBLE_RAW_VALUE
                  /\ ClaimOffsetRaw(lastCall.aAdcValue) >= 0)
        => /\ lastCall.result = ClaimReferenceRow(lastCall.aAdcValue)
           /\ ClaimScaled(ClaimOffsetRaw(lastCall.aAdcValue), ClaimFactor)
                  < 2 ^ (INT_BITS - 1 - DSO_SCALE_FACTOR_SHIFT)

\* the product of a raw value at or above the offset and the identity factor
\* does not fit 32 bit, and the row is not the reference row
C9_Witness ==
    /\ IsConversion
    /\ lastCall.aAdcValue # DATABUFFER_INVISIBLE_RAW_VALUE
    /\ ClaimOffsetRaw(lastCall.aAdcValue) >= 2 ^ (INT_BITS - 1 - DSO_SCALE_FACTOR_SHIFT)
    /\ ClaimFactor = 2 ^ DSO_SCALE_FACTOR_SHIFT
    /\ ClaimReferenceRow(lastCall.aAdcValue) = 0
    /\ lastCall.result # 0

\* C10 as stated: in the pre-clip domain the raw value recovered from the
\* row differs from the raw value by at most one row's worth of raw units,
\* 2^18 / factor.
C10_RoundTripWithinOneRow ==
    (IsRoundTrip /\ ClaimPreClip(lastCall.aAdcValue))
        => /\ (lastCall.aAdcValue - lastCall.raw) * ClaimFactor <= 2 ^ DSO_SCALE_FACTOR_SHIFT
           /\ (lastCall.raw - lastCall.aAdcValue) * ClaimFactor <= 2 ^ DSO_SCALE_FACTOR_SHIFT

\* C10 amended: in the pre-clip domain the recovered raw value is never
\* above the raw value and is below it by less than one row's worth of raw
\* units plus one raw unit (both conversions truncate).
C10_RoundTripWithinOneRowPlusOne ==
    (IsRoundTrip /\ ClaimPreClip(lastCall.aAdcValue))
        => /\ lastCall.raw <= lastCall.aAdcValue
           /\ (lastCall.aAdcValue - lastCall.raw - 1) * ClaimFactor
                  < 2 ^ DSO_SCALE_FACTOR_SHIFT

\* a round trip in a AC range that does not recover the raw value exactly
C10_Witness ==
    /\ IsRoundTrip
    /\ ClaimPreClip(lastCall.aAdcValue)
    /\ MeasurementControl.ChannelIsACMode
    /\ lastCall.result \in 1..(DISPLAY_VALUE_FOR_ZERO - 1)
    /\ lastCall.raw < lastCall.aAdcValue

(***************************************************************************)
(* Properties of drawing while acquiring (SpecIncremental)                 *)
(***************************************************************************)
IsRemainingCall == lastCall.op = "drawRemainingDataBufferValues"

GuardSignalSet ==
    \/ MeasurementControl.TriggerPhaseJustEnded
    \/ DataBufferControl.DataBufferPreTriggerAreaWrapAround

\* C2 as stated: the stored cursor is always in [0, DSO_DISPLAY_WIDTH).
C2_CursorBelowWidth ==
    DataBufferControl.NextDrawXValue \in 0..(DSO_DISPLAY_WIDTH - 1)

\* C2 amended: the stored cursor is in [0, DSO_DISPLAY_WIDTH]; it is the
\* column drawn last plus one, so it holds DSO_DISPLAY_WIDTH after
\* DSO_DISPLAY_WIDTH samples and is wrapped to 0 only when the next sample is
\* drawn; every column that is drawn is in [0, DSO_DISPLAY_WIDTH).
C2_CursorAtMostWidth ==
    /\ DataBufferControl.NextDrawXValue \in 0..DSO_DISPLAY_WIDTH
    /\ DataBufferControl.NextDrawXValue =
           (IF DataBufferControl.DataBufferNextDrawPointer = 0
            THEN 0
            ELSE ((DataBufferControl.DataBufferNextDrawPointer - 1) % DSO_DISPLAY_WIDTH) + 1)
    /\ IsRemainingCall =>
           \A k \in 1..Len(lastCall.iterations) :
               /\ lastCall.iterations[k].column \in Columns
               /\ lastCall.iterations[k].column =
                      lastCall.iterations[k].sample % DSO_DISPLAY_WIDTH

\* the sample after DSO_DISPLAY_WIDTH samples was drawn, at column 0
C2_Witness ==
    /\ IsRemainingCall
    /\ lastCall.entryNextDrawXValue = DSO_DISPLAY_WIDTH
    /\ Len(lastCall.iterations) > 0
    /\ lastCall.iterations[1].column = 0

\* C4: the no-data marker is converted to the sentinel, and no drawPixel and
\* no drawLineFastOneX of drawRemainingDataBufferValues has the sentinel as a
\* row.
C4_SentinelNeverDrawn ==
    /\ getDisplayFrowRawInputValue(DATABUFFER_INVISIBLE_RAW_VALUE)
           = DISPLAYBUFFER_INVISIBLE_VALUE
    /\ IsRemainingCall =>
           \A k \in 1..Len(sink) :
               /\ sink[k].fn = "drawPixel" => sink[k].y # DISPLAYBUFFER_INVISIBLE_VALUE
               /\ sink[k].fn = "drawLineFastOneX" =>
                      /\ sink[k].yStart # DISPLAYBUFFER_INVISIBLE_VALUE
                      /\ sink[k].yEnd # DISPLAYBUFFER_INVISIBLE_VALUE

\* in min max mode a sample whose maximum is visible and whose minimum is the
\* marker is drawn with the sentinel as the row of the minimum
C4_Witness ==
    /\ IsRemainingCall
    /\ MeasurementControl.isEffectiveMinMaxMode
    /\ \E k \in 1..Len(lastCall.iterations) :
           /\ RawAt(lastCall.iterations[k].sample) # DATABUFFER_INVISIBLE_RAW_VALUE
           /\ RawAt(lastCall.iterations[k].sample + DATABUFFER_MIN_OFFSET)
                  = DATABUFFER_INVISIBLE_RAW_VALUE
    /\ \E k \in 1..Len(sink) :
           \/ sink[k].fn = "drawPixel" /\ sink[k].y = DISPLAYBUFFER_INVISIBLE_VALUE
           \/ sink[k].fn = "drawLineFastOneX"
              /\ (sink[k].yStart = DISPLAYBUFFER_INVISIBLE_VALUE
                  \/ sink[k].yEnd = DISPLAYBUFFER_INVISIBLE_VALUE)

\* C5: the columns are drawn in increasing order with wrap around, within
\* one call and from one call to the next, and DSO_DISPLAY_WIDTH consecutive
\* samples touch every column once.
C5_ColumnsInOrder ==
    IsRemainingCall =>
        LET it == lastCall.iterations
        IN  /\ \A k \in 1..(Len(it) - 1) :
                   it[k + 1].column = (it[k].column + 1) % DSO_DISPLAY_WIDTH
            /\ (Len(it) > 0 /\ lastCall.entryLastColumn # -1)
                   => it[1].column = (lastCall.entryLastColumn + 1) % DSO_DISPLAY_WIDTH
            /\ \A k \in 1..Len(it) :
                   k + DSO_DISPLAY_WIDTH - 1 <= Len(it)
                       => \A x \in Columns :
                              Cardinality({j \in k..(k + DSO_DISPLAY_WIDTH - 1) :
                                               it[j].column = x}) = 1

\* one call draws column DSO_DISPLAY_WIDTH - 1 and then column 0, after an
\* earlier call has drawn some columns
C5_Witness ==
    /\ IsRemainingCall
    /\ lastCall.entryLastColumn # -1
    /\ \E k \in 1..(Len(lastCall.iterations) - 1) :
           /\ lastCall.iterations[k].column = DSO_DISPLAY_WIDTH - 1
           /\ lastCall.iterations[k + 1].column = 0

Min2(a, b) == IF a < b THEN a ELSE b

\* C6: with both signals clear one call draws the samples from the draw
\* pointer up to but not including the next-in pointer, and not beyond
\* DATABUFFER_DISPLAY_END, one sample and one column for each iteration; every
\* sample the draw pointer has passed was drawn exactly once, no other was.
C6_DrawsArrivedSamplesOnce ==
    /\ \A i \in SweepIndices :
           history.rendered[i] =
               (IF i < DataBufferControl.DataBufferNextDrawPointer THEN 1 ELSE 0)
    /\ (IsRemainingCall /\ ~GuardSignalSet) =>
           LET it == lastCall.iterations
               limit == Min2(DataBufferControl.DataBufferNextInPointer,
                             DATABUFFER_DISPLAY_END + 1)
           IN  /\ Len(it) = (IF limit > lastCall.entryDrawPointer
                             THEN limit - lastCall.entryDrawPointer ELSE 0)
               /\ \A k \in 1..Len(it) :
                      /\ it[k].sample = lastCall.entryDrawPointer + k - 1
                      /\ it[k].sample < DataBufferControl.DataBufferNextInPointer
                      /\ it[k].sample <= DATABUFFER_DISPLAY_END
               /\ DataBufferControl.DataBufferNextDrawPointer
                      = lastCall.entryDrawPointer + Len(it)

\* a call that drew up to DATABUFFER_DISPLAY_END while more samples had arrived
C6_Witness ==
    /\ IsRemainingCall
    /\ ~GuardSignalSet
    /\ Len(lastCall.iterations) >= 2
    /\ lastCall.entryDrawPointer > 0
    /\ DataBufferControl.DataBufferNextDrawPointer = DATABUFFER_DISPLAY_END + 1
    /\ DataBufferControl.DataBufferNextInPointer > DATABUFFER_DISPLAY_END + 1

\* C7: a call while TriggerPhaseJustEnded or DataBufferPreTriggerAreaWrapAround
\* is set changes neither the display buffers nor the cursor nor the draw
\* pointer and issues no draw call and no spectrum redraw.
C7_GuardedCallDoesNothing ==
    [][(GuardSignalSet /\ lastCall'.op = "drawRemainingDataBufferValues")
        => /\ UNCHANGED <<DisplayBuffer, DisplayBufferMin, DisplayBufferFFT,
                          DataBufferControl, MeasurementControl>>
           /\ sink' = <<>>
           /\ lastCall'.iterations = <<>>]_vars

\* a call with a signal set while samples wait to be drawn
C7_Witness ==
    /\ IsRemainingCall
    /\ GuardSignalSet
    /\ DataBufferControl.DataBufferNextDrawPointer
           < DataBufferControl.DataBufferNextInPointer
    /\ DataBufferControl.DataBufferNextDrawPointer <= DATABUFFER_DISPLAY_END

(***************************************************************************)
(* Properties of drawing whole windows (SpecBulk)                          *)
(***************************************************************************)
IsRegularPass ==
    /\ lastCall.op = "drawDataBuffer"
    /\ lastCall.aDrawMode = "DRAW_MODE_REGULAR"

RECURSIVE ClaimPipelineState(_, _)
\* the data pointer and the counter of the X scaling after n columns of a
\* window that starts at sample p
ClaimPipelineState(p, n) ==
    IF n = 0
    THEN [tDataBufferPointer |-> p,
          tXScaleCounter |-> IF DisplayControl.XScale <= 0 THEN -DisplayControl.XScale
                             ELSE DisplayControl.XScale]
    ELSE LET s == ClaimPipelineState(p, n - 1)
         IN  XScaleStep(DisplayControl.XScale, s.tDataBufferPointer, s.tXScaleCounter)

\* the row of column i of the window that starts at sample p
ClaimPipelineRow(p, i) == ClaimPipelineState(p, i + 1).tValue

\* C1: after a regular pass every column below aLength of DisplayBuffer holds
\* the row that X scaling and conversion give for that column of the window,
\* and with aDrawAlsoMin every column of DisplayBufferMin holds the same for
\* the window DATABUFFER_MIN_OFFSET further on; no column keeps an older value.
C1_BuffersHoldPipelineRows ==
    IsRegularPass =>
        \A i \in 0..(lastCall.aLength - 1) :
            /\ DisplayBuffer[i] = ClaimPipelineRow(lastCall.aDataBufferPointer, i)
            /\ lastCall.aDrawAlsoMin =>
                   DisplayBufferMin[i] =
                       ClaimPipelineRow(lastCall.aDataBufferPointer + DATABUFFER_MIN_OFFSET, i)

\* a regular pass of both tracks that expands: DisplayBuffer holds the rows
\* of its window, DisplayBufferMin does not
C1_Witness ==
    /\ IsRegularPass
    /\ lastCall.aDrawAlsoMin
    /\ DisplayControl.XScale > 1
    /\ \A i \in 0..(lastCall.aLength - 1) :
           DisplayBuffer[i] = ClaimPipelineRow(lastCall.aDataBufferPointer, i)
    /\ \E i \in 0..(lastCall.aLength - 1) :
           DisplayBufferMin[i] #
               ClaimPipelineRow(lastCall.aDataBufferPointer + DATABUFFER_MIN_OFFSET, i)

IsFullWidthPass == IsRegularPass /\ lastCall.aLength = DSO_DISPLAY_WIDTH

\* the first sample of the window of a track of the last pass
ClaimWindow(t) ==
    lastCall.aDataBufferPointer + (IF t = 2 THEN DATABUFFER_MIN_OFFSET ELSE 0)

\* the display buffer a track of the last pass has written
ClaimTrackBuffer(t) == IF t = 2 THEN DisplayBufferMin ELSE DisplayBuffer

\* the tracks of the last pass and the columns of a track
ClaimTracks == 1..Len(lastCall.tracks)
ClaimColumns(t) == 1..Len(lastCall.tracks[t])

RECURSIVE ClaimSumOfSamples(_)
\* the sum of the samples at the indices of a sequence
ClaimSumOfSamples(reads) ==
    IF reads = <<>> THEN 0
    ELSE RawAt(Head(reads)) + ClaimSumOfSamples(Tail(reads))

\* C11: a regular pass of the full width advances the data pointer by
\* DSO_DISPLAY_WIDTH samples for ratio 0, column i holding the row of sample
\* i; by DSO_DISPLAY_WIDTH * |r| samples, give or take one, for a ratio
\* r < -1; by DSO_DISPLAY_WIDTH / r samples, give or take one, for r > 1.
C11_SamplesConsumed ==
    IsFullWidthPass =>
        LET r == DisplayControl.XScale
            n == lastCall.consumed
        IN  /\ r = 0 =>
                   /\ n = DSO_DISPLAY_WIDTH
                   /\ \A i \in Columns :
                          DisplayBuffer[i] = getDisplayFrowRawInputValue(
                                                 RawAt(lastCall.aDataBufferPointer + i))
            /\ r < -1 =>
                   /\ n - (DSO_DISPLAY_WIDTH * (-r)) <= 1
                   /\ (DSO_DISPLAY_WIDTH * (-r)) - n <= 1
            /\ r > 1 =>
                   /\ (n * r) - DSO_DISPLAY_WIDTH <= r
                   /\ DSO_DISPLAY_WIDTH - (n * r) <= r

\* a full pass that expands and has advanced the data pointer
C11_Witness ==
    /\ IsFullWidthPass
    /\ DisplayControl.XScale > 1
    /\ lastCall.consumed >= 1

\* C12: for a ratio r < -1 column i of a regular pass is made of the |r|
\* samples i*|r| .. (i+1)*|r| - 1 of the window and holds the row of the
\* sum of these samples divided by |r|.
C12_CompressMapsRawAverage ==
    (IsRegularPass /\ DisplayControl.XScale < -1) =>
        LET n == -DisplayControl.XScale
        IN  \A t \in ClaimTracks : \A k \in ClaimColumns(t) :
                LET col == lastCall.tracks[t][k]
                IN  /\ col.column = k - 1
                    /\ col.reads = [j \in 1..n |-> ClaimWindow(t) + ((k - 1) * n) + j - 1]
                    /\ ClaimTrackBuffer(t)[k - 1] =
                           getDisplayFrowRawInputValue(ClaimSumOfSamples(col.reads) \div n)

\* a column made of a sample below the offset and a visible one: the row of
\* the average is not the average of the rows
C12_Witness ==
    /\ IsRegularPass
    /\ DisplayControl.XScale < -1
    /\ \E k \in ClaimColumns(1) :
           LET col == lastCall.tracks[1][k]
           IN  /\ \E j \in 1..Len(col.reads) : RawAt(col.reads[j]) = RawBelow
               /\ \E j \in 1..Len(col.reads) : RawAt(col.reads[j]) = RawHigh
               /\ \A j \in 1..Len(col.reads) :
                      RawAt(col.reads[j]) # DATABUFFER_INVISIBLE_RAW_VALUE
               /\ DisplayBuffer[k - 1] = DISPLAY_VALUE_FOR_ZERO

\* C13: for ratio -1 the columns of a regular pass are made of one sample
\* and of two samples in turn, beginning with one sample at column 0, so
\* that two columns take three samples, whatever the window holds.
C13_CompressOneAndAHalf ==
    (IsRegularPass /\ DisplayControl.XScale = -1) =>
        \A t \in ClaimTracks : \A k \in ClaimColumns(t) :
            LET first == ClaimWindow(t) + (3 * ((k - 1) \div 2)) + ((k - 1) % 2)
            IN  lastCall.tracks[t][k].reads =
                    (IF (k - 1) % 2 = 0 THEN <<first>> ELSE <<first, first + 1>>)

\* a column that is due for two samples begins with the marker and takes
\* one sample only
C13_Witness ==
    /\ IsRegularPass
    /\ DisplayControl.XScale = -1
    /\ \E k \in ClaimColumns(1) :
           /\ (k - 1) % 2 = 1
           /\ RawAt(lastCall.tracks[1][k].reads[1]) = DATABUFFER_INVISIBLE_RAW_VALUE
           /\ Len(lastCall.tracks[1][k].reads) = 1

\* C14: in a regular pass with a ratio below 0 every column made of several
\* samples holds the row of the average of the samples.
C14_CompressNeverAveragesRows ==
    (IsRegularPass /\ DisplayControl.XScale < 0) =>
        \A t \in ClaimTracks : \A k \in ClaimColumns(t) :
            LET reads == lastCall.tracks[t][k].reads
            IN  Len(reads) > 1 =>
                    ClaimTrackBuffer(t)[k - 1] =
                        getDisplayFrowRawInputValue(ClaimSumOfSamples(reads) \div Len(reads))

\* for ratio -1 a column made of a visible sample and a sample below the
\* offset holds the average of the two rows
C14_Witness ==
    /\ IsRegularPass
    /\ DisplayControl.XScale = -1
    /\ \E k \in ClaimColumns(1) :
           LET reads == lastCall.tracks[1][k].reads
           IN  /\ Len(reads) = 2
               /\ RawAt(reads[1]) = RawHigh
               /\ RawAt(reads[2]) = RawBelow
               /\ DisplayBuffer[k - 1] =
                      (getDisplayFrowRawInputValue(RawHigh)
                       + getDisplayFrowRawInputValue(RawBelow)) \div 2
               /\ DisplayBuffer[k - 1] #
                      getDisplayFrowRawInputValue((RawHigh + RawBelow) \div 2)

\* the data pointer of the first track before column k (counted from 1) of
\* the last pass, and after its last column
ClaimPointerBefore(k) ==
    IF k <= Len(lastCall.tracks[1]) THEN lastCall.tracks[1][k].reads[1]
    ELSE lastCall.aDataBufferPointer + lastCall.consumed

C16_ExpandRepeatsEverySample ==
    (IsRegularPass /\ DisplayControl.XScale > 1) =>
        \A k \in ClaimColumns(1) :
            /\ lastCall.tracks[1][k].reads =
                   <<lastCall.aDataBufferPointer + ((k - 1) \div DisplayControl.XScale)>>
            /\ DisplayBuffer[k - 1] =
                   getDisplayFrowRawInputValue(
                       RawAt(lastCall.aDataBufferPointer + ((k - 1) \div DisplayControl.XScale)))

\* column r still shows the first sample, which differs from the second
C16_Witness ==
    /\ IsRegularPass
    /\ DisplayControl.XScale > 1
    /\ Len(lastCall.tracks[1]) > DisplayControl.XScale
    /\ lastCall.tracks[1][DisplayControl.XScale + 1].reads = <<lastCall.aDataBufferPointer>>
    /\ DisplayBuffer[DisplayControl.XScale] =
           getDisplayFrowRawInputValue(RawAt(lastCall.aDataBufferPointer))
    /\ getDisplayFrowRawInputValue(RawAt(lastCall.aDataBufferPointer)) #
           getDisplayFrowRawInputValue(RawAt(lastCall.aDataBufferPointer + 1))

(***************************************************************************)
(* Properties of the spectrum display (SpecFFT)                            *)
(***************************************************************************)
IsFFTDraw == lastCall.op = "draw128FFTValuesFast" /\ lastCall.ShowFFT

\* the columns at which the loop of draw128FFTValuesFast draws a bar
ClaimBarColumns == {x \in Columns : x % 3 = 0}

\* the row of the bar at column x for the spectrum of the last call
ClaimBarRow(x) ==
    DSO_DISPLAY_HEIGHT
    - ((HORIZONTAL_GRID_HEIGHT * lastCall.bins[x \div 3])
       \div MaxOfBins(lastCall.bins))

\* the fills of the last call for the bar at column x
ClaimBarFills(x) == {k \in 1..Len(sink) : sink[k].xStart = x}

\* C17: every fillRect of draw128FFTValuesFast begins at the column x of a
\* bar and ends at column x + 2; a bar is filled once if its new row differs
\* from the row DisplayBufferFFT held for it, and not at all if it does not.
C17_FillsOnlyChangedBars ==
    IsFFTDraw =>
        /\ \A k \in 1..Len(sink) :
               /\ sink[k].fn = "fillRect"
               /\ sink[k].xStart \in ClaimBarColumns
               /\ sink[k].xEnd = sink[k].xStart + 2
        /\ \A x \in ClaimBarColumns :
               Cardinality(ClaimBarFills(x)) =
                   (IF ClaimBarRow(x) # lastCall.before[x \div 3] THEN 1 ELSE 0)

\* a call that fills no bar: the bar at column 0 has been drawn at a row
\* above the bottom of the display and has not changed
C17_Witness ==
    /\ IsFFTDraw
    /\ sink = <<>>
    /\ lastCall.before[0] = ClaimBarRow(0)
    /\ ClaimBarRow(0) < DSO_DISPLAY_HEIGHT

\* C18: after a call of draw128FFTValuesFast with ShowFFT set
\* DisplayBufferFFT holds the row of every bar drawn; the fill of a changed
\* bar goes from the smaller to the larger of the old and the new row, in
\* the data color if the bar has grown and in the background color if it
\* has shrunk; a call with the spectrum of the call before it fills nothing.
C18_BufferHoldsDrawnRows ==
    IsFFTDraw =>
        /\ \A x \in ClaimBarColumns :
               LET old == lastCall.before[x \div 3]
                   new == ClaimBarRow(x)
               IN  /\ DisplayBufferFFT[x \div 3] = new
                   /\ \A k \in ClaimBarFills(x) :
                          /\ new < old =>
                                 /\ sink[k].yStart = new
                                 /\ sink[k].yEnd = old
                                 /\ sink[k].color = lastCall.aColor
                          /\ new > old =>
                                 /\ sink[k].yStart = old
                                 /\ sink[k].yEnd = new
                                 /\ sink[k].color = "COLOR_BACKGROUND_DSO"
        /\ lastCall.previous = <<lastCall.bins>> => sink = <<>>

\* a bar drawn before that has grown and is filled in the data color
C18_Witness ==
    /\ IsFFTDraw
    /\ Len(sink) = 1
    /\ sink[1].color = "COLOR_FFT_DATA"
    /\ lastCall.before[0] <= DSO_DISPLAY_HEIGHT
    /\ DisplayBufferFFT[0] < lastCall.before[0]
    /\ lastCall.previous # <<>>

(***************************************************************************)
(* Properties of the grid and the trigger line (SpecGrid)                  *)
(***************************************************************************)
IsGridDraw == lastCall.op = "drawGridLinesWithHorizLabelsAndTriggerLine"

\* range or offset differ from what DisplayControl held before the last call
ClaimLabelsDiffer ==
    \/ lastCall.LastDisplayRangeIndex # MeasurementControl.DisplayRangeIndexForPrint
    \/ lastCall.LastOffsetGridCount # MeasurementControl.OffsetGridCount

\* the calls of a kind in the sink
ClaimCallsOf(fn) == {k \in 1..Len(sink) : sink[k].fn = fn}

\* the number of horizontal grid lines
ClaimGridRowCount ==
    Cardinality({y \in 1..DISPLAY_VALUE_FOR_ZERO :
                     (DISPLAY_VALUE_FOR_ZERO - y) % HORIZONTAL_GRID_HEIGHT = 0})

\* C19 as stated: a call of drawGridLinesWithHorizLabelsAndTriggerLine that
\* finds range and offset as DisplayControl has recorded them neither clears
\* a label nor draws a label text; a call that finds one of them changed
\* clears and draws the labels and records range and offset.
C19_NoLabelRedrawIfUnchanged ==
    IsGridDraw =>
        /\ ~ClaimLabelsDiffer =>
               /\ ClaimCallsOf("fillRect") = {}
               /\ ClaimCallsOf("drawText") = {}
        /\ ClaimLabelsDiffer =>
               /\ ClaimCallsOf("fillRect") # {}
               /\ ClaimCallsOf("drawText") # {}
        /\ DisplayControl.LastDisplayRangeIndex = MeasurementControl.DisplayRangeIndexForPrint
        /\ DisplayControl.LastOffsetGridCount = MeasurementControl.OffsetGridCount

\* C19: a call of drawGridLinesWithHorizLabelsAndTriggerLine draws the text
\* of every label; it clears the labels before, one fillRect for each, if
\* and only if range or offset differ from what DisplayControl has recorded,
\* and DisplayControl holds range and offset of the call afterwards.
C19_LabelClearOnlyIfChanged ==
    IsGridDraw =>
        /\ Cardinality(ClaimCallsOf("drawText")) = ClaimGridRowCount
        /\ Cardinality(ClaimCallsOf("fillRect")) =
               (IF ClaimLabelsDiffer THEN ClaimGridRowCount ELSE 0)
        /\ \A k \in ClaimCallsOf("fillRect") :
               /\ sink[k + 3].fn = "drawText"
               /\ sink[k + 3].text.range = MeasurementControl.DisplayRangeIndexForPrint
        /\ DisplayControl.LastDisplayRangeIndex = MeasurementControl.DisplayRangeIndexForPrint
        /\ DisplayControl.LastOffsetGridCount = MeasurementControl.OffsetGridCount

\* a grid drawn again with the range and the offset of an earlier call:
\* no label is cleared, the texts are drawn
C19_Witness ==
    /\ IsGridDraw
    /\ ~ClaimLabelsDiffer
    /\ MeasurementControl.DisplayRangeIndexForPrint # 0
    /\ MeasurementControl.OffsetGridCount # 0
    /\ ClaimCallsOf("fillRect") = {}
    /\ ClaimCallsOf("drawText") # {}

IsTriggerLineClear == lastCall.op = "clearTriggerLine"

\* the columns of the vertical grid lines
ClaimGridColumns == {x \in Columns : x % TIMING_GRID_WIDTH = TIMING_GRID_WIDTH - 1}

\* a pixel of a color is drawn at column x of the cleared row, after the row
\* has been cleared
ClaimPixelRestored(x, color) ==
    \E k \in 2..Len(sink) :
        /\ sink[k].fn = "drawPixel"
        /\ sink[k].x = x
        /\ sink[k].y = lastCall.aTriggerLevelDisplayValue
        /\ sink[k].color = color

\* C20: clearTriggerLine for row y clears the row and then draws a pixel in
\* the grid color at every column of a vertical grid line and a pixel in the
\* waveform color at every column whose DisplayBuffer row is y, while the
\* acquisition runs as well as when it has stopped.
C20_ClearRestoresGridAndWaveform ==
    IsTriggerLineClear =>
        /\ sink[1].fn = "drawLineRel"
        /\ sink[1].color = "COLOR_BACKGROUND_DSO"
        /\ \A x \in ClaimGridColumns : ClaimPixelRestored(x, "COLOR_GRID_LINES")
        /\ \A x \in Columns :
               DisplayBuffer[x] = lastCall.aTriggerLevelDisplayValue =>
                   ClaimPixelRestored(x, "COLOR_DATA_HOLD")

\* the acquisition runs, the cleared row holds a pixel of the waveform and
\* no pixel of the waveform is drawn
C20_Witness ==
    /\ IsTriggerLineClear
    /\ MeasurementControl.isRunning
    /\ \E x \in Columns : DisplayBuffer[x] = lastCall.aTriggerLevelDisplayValue
    /\ \A k \in 1..Len(sink) : sink[k].color # "COLOR_DATA_HOLD"
    /\ \A x \in ClaimGridColumns : ClaimPixelRestored(x, "COLOR_GRID_LINES")


\* C21: a call of drawTriggerLine issues one line, at the row of the trigger
\* level over the width of the display, if TriggerLevelDisplayValue is not 0
\* and TriggerMode is not TRIGGER_MODE_OFF, and no call at all otherwise; it
\* changes neither MeasurementControl, DisplayControl, DataBufferControl nor
\* a display buffer.
C21_TriggerLineOnlyIfSetAndEnabled ==
    [][lastCall'.op = "drawTriggerLine" =>
          /\ UNCHANGED <<buttonVars, LOCAL_DISPLAY_EXISTS, MeasurementControl, DisplayControl,
                         DataBufferControl, DisplayBuffer, DisplayBufferMin,
                         DisplayBuffer2, DisplayBufferFFT>>
          /\ sink' = IF DisplayControl.TriggerLevelDisplayValue # 0
                        /\ MeasurementControl.TriggerMode # "TRIGGER_MODE_OFF"
                     THEN <<[fn |-> "drawLineRel", x |-> 0,
                             y |-> DisplayControl.TriggerLevelDisplayValue,
                             dx |-> DSO_DISPLAY_WIDTH, dy |-> 0,
                             color |-> "COLOR_TRIGGER_LINE"]>>
                     ELSE <<>>]_vars

\* drawTriggerLine has been called with a trigger level set and the trigger
\* switched off, and has drawn nothing
C21_Witness ==
    /\ lastCall.op = "drawTriggerLine"
    /\ DisplayControl.TriggerLevelDisplayValue # 0
    /\ MeasurementControl.TriggerMode = "TRIGGER_MODE_OFF"
    /\ sink = <<>>


(***************************************************************************)
(* Further properties of drawing while acquiring (SpecIncremental)         *)
(***************************************************************************)
ClaimInWidth(x) == 0 <= x /\ x < DSO_DISPLAY_WIDTH
ClaimInHeight(y) == 0 <= y /\ y < DSO_DISPLAY_HEIGHT

\* the coordinates of a call to the sink lie on the display
ClaimCallOnDisplay(call) ==
    /\ call.fn = "fillRect" =>
           /\ ClaimInWidth(call.xStart) /\ ClaimInWidth(call.xEnd)
           /\ ClaimInHeight(call.yStart) /\ ClaimInHeight(call.yEnd)
    /\ call.fn = "drawPixel" => ClaimInWidth(call.x) /\ ClaimInHeight(call.y)
    /\ call.fn = "drawLineFastOneX" =>
           /\ ClaimInWidth(call.x)
           /\ ClaimInHeight(call.yStart) /\ ClaimInHeight(call.yEnd)

\* C22: every corner of a fillRect of draw128FFTValuesFast and every
\* position and row of a drawPixel or drawLineFastOneX of
\* drawRemainingDataBufferValues lies in
\* [0, DSO_DISPLAY_WIDTH) x [0, DSO_DISPLAY_HEIGHT).
C22_CoordinatesOnDisplay ==
    IsRemainingCall => \A k \in 1..Len(sink) : ClaimCallOnDisplay(sink[k])

\* the spectrum is drawn with a bar of height 0: its fillRect ends at row
\* DSO_DISPLAY_HEIGHT
C22_Witness ==
    /\ IsRemainingCall
    /\ \E k \in 1..Len(sink) :
           /\ sink[k].fn = "fillRect"
           /\ ClaimInWidth(sink[k].xStart)
           /\ sink[k].yEnd = DSO_DISPLAY_HEIGHT


(***************************************************************************)
(* Further properties of drawing whole windows (SpecBulk)                  *)
(***************************************************************************)
\* the marker is among the samples a column of the last pass is made of
ClaimColumnHasMarker(t, k) ==
    \E j \in 1..Len(lastCall.tracks[t][k].reads) :
        RawAt(lastCall.tracks[t][k].reads[j]) = DATABUFFER_INVISIBLE_RAW_VALUE

\* C23: in a regular pass every column that is made of samples with the
\* no data marker among them is stored as DISPLAYBUFFER_INVISIBLE_VALUE,
\* whatever the ratio is.
C23_MarkerColumnIsSentinel ==
    IsRegularPass =>
        \A t \in ClaimTracks : \A k \in ClaimColumns(t) :
            ClaimColumnHasMarker(t, k) =>
                ClaimTrackBuffer(t)[k - 1] = DISPLAYBUFFER_INVISIBLE_VALUE

\* a column averaged from several samples, the marker among them, holds a
\* visible row
C23_Witness ==
    /\ IsRegularPass
    /\ DisplayControl.XScale < -1
    /\ \E k \in ClaimColumns(1) :
           /\ ClaimColumnHasMarker(1, k)
           /\ DisplayBuffer[k - 1] <= DISPLAY_VALUE_FOR_ZERO


IsOverlayPass == lastCall.op = "drawDataBuffer" /\ DisplayControl.showTriggerInfoLine

\* C24: a call of drawDataBuffer with showTriggerInfoLine set writes the
\* trigger state value of column i to DisplayBuffer2[i]; no write goes to
\* an index of DSO_DISPLAY_WIDTH or above, in passes over both tracks too.
C24_OverlayWrittenAtItsColumn ==
    IsOverlayPass =>
        \A k \in 1..Len(lastCall.overlay) :
            /\ lastCall.overlay[k].index = lastCall.overlay[k].column
            /\ lastCall.overlay[k].index < DSO_DISPLAY_WIDTH

\* a pass of the full width over both tracks writes beyond DisplayBuffer2
C24_Witness ==
    /\ IsOverlayPass
    /\ lastCall.aDrawAlsoMin
    /\ lastCall.aLength = DSO_DISPLAY_WIDTH
    /\ \E k \in 1..Len(lastCall.overlay) :
           /\ lastCall.overlay[k].track = 1
           /\ lastCall.overlay[k].index >= DSO_DISPLAY_WIDTH


IsBulkCall == lastCall.op = "drawDataBuffer"

\* the calls of the last drawDataBuffer to BlueDisplay1, as the pairs of the
\* chart index and the buffer handed over
ClaimRemoteCharts ==
    LET remote == SelectSeq(sink, LAMBDA call : call.fn = "drawChartByteBuffer")
    IN  [k \in 1..Len(remote) |-> <<remote[k].chartIndex, remote[k].buffer,
                                    remote[k].length>>]

\* C25: a call of drawDataBuffer hands every track it works on to
\* BlueDisplay1 with one drawChartByteBuffer, after the columns of the track
\* are stored: chart 0 with DisplayBuffer unless the mode is
\* DRAW_MODE_CLEAR_OLD_MIN, chart 1 with DisplayBufferMin if and only if
\* aDrawAlsoMin is set or the mode is DRAW_MODE_CLEAR_OLD_MIN; every other
\* call it issues goes to the local display.
C25_OneChartCallPerTrack ==
    IsBulkCall =>
        /\ \A k \in 1..Len(sink) :
               sink[k].fn \in {"drawChartByteBuffer", "LocalDisplay.drawPixel",
                               "LocalDisplay.drawLineFastOneX"}
        /\ sink[Len(sink)].fn = "drawChartByteBuffer"
        /\ ClaimRemoteCharts =
               (IF lastCall.aDrawMode = "DRAW_MODE_CLEAR_OLD_MIN" THEN <<>>
                ELSE <<<<0, DisplayBuffer, lastCall.aLength>>>>)
               \o (IF lastCall.aDrawAlsoMin \/ lastCall.aDrawMode = "DRAW_MODE_CLEAR_OLD_MIN"
                   THEN <<<<1, DisplayBufferMin, lastCall.aLength>>>>
                   ELSE <<>>)

\* a regular pass over both tracks with a local display: local calls for the
\* columns, then chart 0, local calls again, then chart 1
C25_Witness ==
    /\ IsBulkCall
    /\ lastCall.aDrawMode = "DRAW_MODE_REGULAR"
    /\ lastCall.aDrawAlsoMin
    /\ Len(ClaimRemoteCharts) = 2
    /\ Len(sink) > 2
    /\ DisplayBuffer # lastCall.before.DisplayBuffer
    /\ DisplayBufferMin # lastCall.before.DisplayBufferMin


C29_RowNeverGrowsWithRaw ==
    (IsConversion /\ lastCall.aAdcValue # DATABUFFER_INVISIBLE_RAW_VALUE) =>
        \A b \in RawInputs \ {DATABUFFER_INVISIBLE_RAW_VALUE} :
            lastCall.aAdcValue <= b => getDisplayFrowRawInputValue(b) <= lastCall.result

\* a raw value whose row is visible, and a larger one whose product
\* overflows: its row is larger and not a row of the display
C29_Witness ==
    /\ IsConversion
    /\ lastCall.aAdcValue < DATABUFFER_INVISIBLE_RAW_VALUE
    /\ lastCall.result < DISPLAY_VALUE_FOR_ZERO
    /\ \E b \in RawInputs :
           /\ b > DATABUFFER_INVISIBLE_RAW_VALUE
           /\ getDisplayFrowRawInputValue(b) > DISPLAY_VALUE_FOR_ZERO


(***************************************************************************)
(* Properties of passes over both tracks (SpecBulk)                        *)
(***************************************************************************)
IsBothTracksPass == IsRegularPass /\ Len(lastCall.tracks) = 2

\* C30: in a regular pass over both tracks column i of the minimum track is
\* made of the samples column i of the maximum track is made of, shifted by
\* DATABUFFER_MIN_OFFSET, for every ratio and length.
C30_MinTrackHasPhaseOfMaxTrack ==
    IsBothTracksPass =>
        /\ Len(lastCall.tracks[2]) = Len(lastCall.tracks[1])
        /\ \A k \in ClaimColumns(1) :
               lastCall.tracks[2][k].reads =
                   [j \in 1..Len(lastCall.tracks[1][k].reads) |->
                       lastCall.tracks[1][k].reads[j] + DATABUFFER_MIN_OFFSET]

\* an expanding pass: column 0 of both tracks shows the first sample of its
\* window, a later column of the minimum track another sample than the
\* column of the maximum track
C30_Witness ==
    /\ IsBothTracksPass
    /\ DisplayControl.XScale > 0
    /\ lastCall.tracks[2][1].reads = <<lastCall.tracks[1][1].reads[1] + DATABUFFER_MIN_OFFSET>>
    /\ \E k \in ClaimColumns(1) :
           lastCall.tracks[2][k].reads[1] #
               lastCall.tracks[1][k].reads[1] + DATABUFFER_MIN_OFFSET


(***************************************************************************)
(* The spectrum while acquiring (SpecIncremental)                          *)
(***************************************************************************)
\* the sample at which enough samples for a transform have arrived
ClaimFFTSample == DATABUFFER_PRE_TRIGGER_SIZE + FFT_SIZE - 1

RECURSIVE ClaimCallsBefore(_, _)
\* the number of draw calls of the iterations of it before the k-th
ClaimCallsBefore(it, k) ==
    IF k <= 1 THEN 0 ELSE Len(it[k - 1].calls) + ClaimCallsBefore(it, k - 1)

\* the calls of the sink that belong to the spectrum
ClaimFFTCalls == {j \in 1..Len(sink) : sink[j].fn = "fillRect"}

\* C28: in a sweep the spectrum is drawn at most once: in the iteration that
\* draws the sample DATABUFFER_PRE_TRIGGER_SIZE + FFT_SIZE - 1, before the
\* calls for the column of that sample, and in no other iteration.
C28_SpectrumOncePerSweep ==
    /\ ClaimFFTSample \in SweepIndices =>
           /\ history.rendered[ClaimFFTSample] <= 1
           /\ MeasurementControl.MaxFFTValue # 0 <=> history.rendered[ClaimFFTSample] = 1
    /\ ClaimFFTSample \notin SweepIndices => MeasurementControl.MaxFFTValue = 0
    /\ IsRemainingCall =>
           LET it == lastCall.iterations
           IN  /\ \A k \in 1..Len(it) : it[k].fft <=> it[k].sample = ClaimFFTSample
               /\ (\A k \in 1..Len(it) : it[k].sample # ClaimFFTSample) => ClaimFFTCalls = {}
               /\ \A k \in 1..Len(it) :
                      it[k].sample = ClaimFFTSample =>
                          ClaimFFTCalls =
                              (ClaimCallsBefore(it, k) + 1)..
                                  (ClaimCallsBefore(it, k) + Cardinality(ClaimFFTCalls))

\* a call that draws samples before the boundary and the sample at the
\* boundary: the spectrum is drawn after the calls for the earlier samples
C28_Witness ==
    /\ IsRemainingCall
    /\ ClaimFFTCalls # {}
    /\ \E k \in 2..Len(lastCall.iterations) :
           /\ lastCall.iterations[k].sample = ClaimFFTSample
           /\ ClaimCallsBefore(lastCall.iterations, k) > 0
           /\ lastCall.iterations[k].calls # <<>>


(***************************************************************************)
(* The trace in line mode while acquiring (SpecIncremental).  The surface  *)
(* is the set of lines and pixels in the data color; a line or pixel drawn *)
(* in the erase color removes the line or pixel of the same geometry.      *)
(***************************************************************************)
\* a call to the sink without its color
ClaimGeometry(call) ==
    IF call.fn = "drawLineFastOneX"
    THEN [fn |-> call.fn, x |-> call.x, yStart |-> call.yStart, yEnd |-> call.yEnd]
    ELSE [fn |-> call.fn, x |-> call.x, yStart |-> call.y, yEnd |-> call.y]

\* what the trace owes to column k > 0: the segment from the row stored at
\* k - 1 to the row stored at k, the start pixel if column k - 1 is not
\* visible, nothing if column k is not visible
ClaimElement(buffer, bufferMin, k) ==
    IF buffer[k] = DISPLAYBUFFER_INVISIBLE_VALUE
    THEN {}
    ELSE IF buffer[k - 1] # DISPLAYBUFFER_INVISIBLE_VALUE
         THEN {[fn |-> "drawLineFastOneX", x |-> k - 1, yStart |-> buffer[k - 1],
                yEnd |-> buffer[k]]}
              \cup (IF MeasurementControl.isEffectiveMinMaxMode
                    THEN {[fn |-> "drawLineFastOneX", x |-> k - 1,
                           yStart |-> bufferMin[k - 1], yEnd |-> bufferMin[k]]}
                    ELSE {})
         ELSE {[fn |-> "drawPixel", x |-> k, yStart |-> buffer[k], yEnd |-> buffer[k]]}
              \cup (IF MeasurementControl.isEffectiveMinMaxMode
                    THEN {[fn |-> "drawPixel", x |-> k, yStart |-> bufferMin[k],
                           yEnd |-> bufferMin[k]]}
                    ELSE {})

\* the surface that is consistent with the buffers when the cursor stands
\* behind column c (c = -1 before the first step): the column after the
\* cursor is erased, the columns behind it show the new rows and the columns
\* further ahead the rows of the pass before
ClaimSurface(buffer, bufferMin, c) ==
    UNION {ClaimElement(buffer, bufferMin, k) :
               k \in (1..(DSO_DISPLAY_WIDTH - 1)) \ {c + 1}}

RECURSIVE ClaimReplay(_, _, _)
\* the surface after the calls from the k-th on
ClaimReplay(surface, calls, k) ==
    IF k > Len(calls)
    THEN surface
    ELSE LET call == calls[k]
         IN  IF call.fn \notin {"drawPixel", "drawLineFastOneX"}
             THEN ClaimReplay(surface, calls, k + 1)
             ELSE IF call.color = "EraseColor"
                  THEN ClaimReplay(surface \ {ClaimGeometry(call)}, calls, k + 1)
                  ELSE ClaimReplay(surface \cup {ClaimGeometry(call)}, calls, k + 1)

\* the calls of an iteration at column x are erase calls for the segment
\* from x to x + 1, then draw calls for the segment from x - 1 to x
ClaimEraseThenDraw(iteration) ==
    LET calls == iteration.calls
        x == iteration.column
    IN  /\ \A i, j \in 1..Len(calls) :
               (i < j /\ calls[i].color # "EraseColor") => calls[j].color # "EraseColor"
        /\ \A i \in 1..Len(calls) :
               IF calls[i].color = "EraseColor"
               THEN calls[i].x = (IF calls[i].fn = "drawLineFastOneX" THEN x ELSE x + 1)
               ELSE calls[i].x = (IF calls[i].fn = "drawLineFastOneX" THEN x - 1 ELSE x)

\* C27: in line mode a call that starts from a surface consistent with the
\* buffers leaves a surface consistent with the buffers: every iteration
\* first erases the segment from its column to the next with the rows stored
\* before, then draws the segment from the column before to its column with
\* the rows stored now, so that behind the cursor the segments are those
\* between consecutive stored rows, also across the wrap and across columns
\* that are not visible.
C27_TraceFollowsStoredRows ==
    [][(lastCall'.op = "drawRemainingDataBufferValues" /\ ~IsPixelMode) =>
           /\ \A k \in 1..Len(lastCall'.iterations) :
                  ClaimEraseThenDraw(lastCall'.iterations[k])
           /\ ClaimReplay(ClaimSurface(DisplayBuffer, DisplayBufferMin,
                                       history.lastColumn), sink', 1)
                  = ClaimSurface(DisplayBuffer', DisplayBufferMin',
                                 history'.lastColumn)]_vars

\* a call in line mode that crosses the wrap and has erased a segment and a
\* start pixel and has drawn a segment and a start pixel
C27_Witness ==
    /\ IsRemainingCall
    /\ ~IsPixelMode
    /\ \E k \in 2..Len(lastCall.iterations) : lastCall.iterations[k].column = 0
    /\ \E i \in 1..Len(sink) : sink[i].fn = "drawLineFastOneX" /\ sink[i].color = "EraseColor"
    /\ \E i \in 1..Len(sink) : sink[i].fn = "drawPixel" /\ sink[i].color = "EraseColor"
    /\ \E i \in 1..Len(sink) : sink[i].fn = "drawLineFastOneX" /\ sink[i].color # "EraseColor"
    /\ \E i \in 1..Len(sink) : sink[i].fn = "drawPixel" /\ sink[i].color # "EraseColor"


(***************************************************************************)
(* Passes that erase what the buffers hold (SpecBulk)                      *)
(***************************************************************************)
IsClearPass == IsBulkCall /\ lastCall.aDrawMode # "DRAW_MODE_REGULAR"

\* C31: a call of drawDataBuffer in DRAW_MODE_CLEAR_OLD or
\* DRAW_MODE_CLEAR_OLD_MIN reads no sample of the data window, leaves
\* DisplayBuffer and DisplayBufferMin as they were and hands these values to
\* BlueDisplay1.
C31_ClearPassKeepsBuffers ==
    IsClearPass =>
        /\ lastCall.consumed = 0
        /\ \A t \in 1..Len(lastCall.tracks) :
               \A k \in 1..Len(lastCall.tracks[t]) : lastCall.tracks[t][k].reads = <<>>
        /\ DisplayBuffer = lastCall.before.DisplayBuffer
        /\ DisplayBufferMin = lastCall.before.DisplayBufferMin
        /\ \A k \in 1..Len(ClaimRemoteCharts) :
               ClaimRemoteCharts[k][2] =
                   (IF ClaimRemoteCharts[k][1] = 0 THEN lastCall.before.DisplayBuffer
                    ELSE lastCall.before.DisplayBufferMin)

\* an erasing pass over the whole width after a regular pass, with a local
\* display in line mode and a clear color
C31_Witness ==
    /\ IsClearPass
    /\ history.passes = 2
    /\ LOCAL_DISPLAY_EXISTS
    /\ ~DisplayControl.drawPixelMode
    /\ lastCall.aClearBeforeColor # NO_COLOR
    /\ lastCall.aLength = DSO_DISPLAY_WIDTH
    /\ DisplayBuffer # lastCall.before.DisplayBuffer


(***************************************************************************)
(* Properties of the button handles (SpecButtons)                          *)
(***************************************************************************)
IsButtonInit == lastCall.op = "init"

\* the buttons initialised since the last resetAllButtons and not
\* deinitialised since
ClaimInitialised == {o \in ButtonObjects : buttons[o].initialised}

\* no two initialised buttons share a handle
ClaimHandlesDiffer ==
    \A o, p \in ClaimInitialised :
        o # p => buttons[o].mButtonHandle # buttons[p].mButtonHandle

\* C32 as stated: the init calls since the last resetAllButtons get the
\* handles 0, 1, 2, ... in the order of the calls, paired or not, and no two
\* initialised buttons share a handle.
C32_HandlesInCallOrder ==
    /\ IsButtonInit => buttons[lastCall.button].mButtonHandle = history.inits - 1
    /\ ClaimHandlesDiffer

\* C32, amended: an init call gets the value of the handle counter, which is
\* the number of init calls less the number of deinit calls since the last
\* resetAllButtons, paired or not; as long as every deinit call is for the
\* initialised button that was initialised last, no two initialised buttons
\* share a handle and the handles are 0, 1, 2, ... in the order of init.
C32_HandlesFollowButtonStack ==
    /\ sLocalButtonIndex = history.inits - history.deinits
    /\ IsButtonInit =>
           /\ buttons[lastCall.button].mButtonHandle = lastCall.entryIndex
           /\ sLocalButtonIndex = lastCall.entryIndex + 1
    /\ history.ordered =>
           /\ ClaimHandlesDiffer
           /\ {buttons[o].mButtonHandle : o \in ClaimInitialised}
                  = 0..(sLocalButtonIndex - 1)
    /\ ~LOCAL_DISPLAY_EXISTS => history.deinits = 0

\* an init call without a connection after a deinit of the button
\* initialised last: the handle of that button is given again
C32_Witness ==
    /\ IsButtonInit
    /\ ~lastCall.paired
    /\ history.ordered
    /\ history.deinits > 0
    /\ Cardinality(ClaimInitialised) = 2
    /\ buttons[lastCall.button].mButtonHandle = 1
    /\ history.inits = 3


(***************************************************************************)
(* Properties of the requests to the remote display (SpecButtons)          *)
(***************************************************************************)
\* a request that names the handle of a button without announcing it
ClaimNamesButton(request) ==
    request.handle # NO_HANDLE /\ request.fn # "FUNCTION_BUTTON_CREATE"

\* C33: every request that names the handle of a button names a handle that
\* was announced with FUNCTION_BUTTON_CREATE before, whatever the order of
\* the operations and of the changes of the connection, and no request is
\* sent while USART_isBluetoothPaired() is false.
C33_RequestsNameAnnouncedHandles ==
    /\ \A k \in 1..Len(sink) :
           ClaimNamesButton(sink[k]) => sink[k].handle \in history.announced
    /\ sink # <<>> => lastCall.paired

\* a button initialised without a connection is drawn with a connection
C33_Witness ==
    /\ lastCall.op = "drawButton"
    /\ lastCall.paired
    /\ sink # <<>>
    /\ history.announced = {}

====
